---- MODULE Spec2Model ----
(***************************************************************************)
(* Model of the dividend-yield backend: the snapshot job                   *)
(* (backend/src/snapshotJob.ts, snapshotRoutes.ts, routes.ts), the         *)
(* resilient HTTP client, the read-through fetcher, the fundamentals       *)
(* mapping, the sector translation and the batch fetcher (dataFetcher.ts). *)
(*                                                                         *)
(* Every Redis command is one atomic step: node-redis sends commands on    *)
(* one connection in the order they are issued, and a task that awaits a   *)
(* command lets every other task run before its continuation.              *)
(* Values stored under a key are kept structurally (the JSON text of a     *)
(* value is not modelled); an optional value is <<>> or <<v>>.             *)
(***************************************************************************)
EXTENDS Integers, Sequences, FiniteSets, TLC

\* ---------------------------------------------------------------- bounds
MaxRuns == 2
MaxCancels == 1
MaxTickers == 2

\* ------------------------------------------------------ program constants
REQUESTS_PER_MINUTE == 60
CHECKPOINT_EVERY == 50

SNAPSHOT_KEY == "snapshot:all"
JOB_STATUS_KEY == "snapshot:job:status"
JOB_PROGRESS_KEY == "snapshot:job:progress"
TICKERS_KEY == "tickers"

\* ------------------------------------------------------------- universe
Runs == 1..MaxRuns
Cancels == 1..MaxCancels
AllSymbols == <<"AAA", "BBB", "CCC", "DDD">>
Universe(n) == [i \in 1..n |-> AllSymbols[i]]
Universes == {Universe(n) : n \in 0..MaxTickers}
Symbols == {AllSymbols[i] : i \in 1..Len(AllSymbols)}

None == <<>>
Some(v) == <<v>>
IsSome(o) == o # <<>>
Val(o) == o[1]

Keys == {SNAPSHOT_KEY, JOB_STATUS_KEY, JOB_PROGRESS_KEY, TICKERS_KEY} \cup Symbols

\* Math.ceil(a / b) for b > 0
Ceil(a, b) == -((-a) \div b)

VARIABLES
    redis,       \* the shared key-value store: key -> None | Some(value)
    pc,          \* run -> position of that invocation
    kind,        \* run -> "manual" (POST /trigger) | "cron"
    tickers,     \* run -> the universe this run loaded
    idx,         \* run -> index of the symbol the for-of loop is at
    completed,   \* run -> local counter
    failed,      \* run -> local counter
    snapshot,    \* run -> local accumulator
    startedAt,   \* run -> startedAt value read back at a checkpoint
    cpc,         \* cancel request -> position
    obs,         \* run -> history of what the run saw and did
    rpc,         \* fetchWithRetry: position of the one call
    maxRetries,  \* fetchWithRetry: its argument
    attempt,     \* fetchWithRetry: loop variable
    lastError,   \* fetchWithRetry: local
    rresult,     \* fetchWithRetry: how the call ended
    rlog,        \* fetchWithRetry: the responses its HTTP attempts received
    rsleeps,     \* fetchWithRetry: the delays it slept
    fpc,         \* fetcher call -> position
    fkey,        \* fetcher call -> its key argument
    fdata,       \* fetcher call -> the value it fetched, to be cached
    fresult,     \* fetcher call -> the payload it returned
    fobs,        \* fetcher call -> what the call saw and did
    fund,        \* fetchStockFundamentals: its inputs and how it ended
    strail,      \* getSectorTranslation: an input and its successive images
    backoff,     \* getRetryDelay: the next attempt index and the delays so far
    route,       \* POST /batch: the request body and the response sent
    batch        \* fetchBatch: its arguments, loop position and result map

jobLocals == <<pc, kind, tickers, idx, completed, failed, snapshot,
               startedAt, cpc, obs>>
jobVars == <<redis, jobLocals>>
retryVars == <<rpc, maxRetries, attempt, lastError, rresult, rlog, rsleeps>>

fetcherVars == <<fpc, fkey, fdata, fresult, fobs>>

pureVars == <<fund, strail, backoff, route>>

vars == <<jobVars, retryVars, fetcherVars, pureVars, batch>>

\* ------------------------------------------------------------- helpers
Status == redis[JOB_STATUS_KEY]

\* getJobStatus: (get ?? 'idle')
getJobStatus == IF IsSome(Status) THEN Val(Status) ELSE "idle"

total(r) == Len(tickers[r])

\* the start guard of runSnapshotJob and of POST /trigger
AlreadyRunning_WrongLiteral(s) == s = Some("Running")
AlreadyRunning(s) == s = Some("running")

\* the cancellation check at the top of every iteration
StillRunning(s) == s = Some("running")

\* "only include stocks that actually pay a dividend"
PaysDividend_NonNegative(y) == y >= 0
PaysDividend(y) == y > 0

\* the checkpoint condition
CheckpointDue(c, t) == (c % CHECKPOINT_EVERY = 0) \/ (c = t)

\* outcomes of one fetchStockFundamentals call, as the job sees them
JobYields == {0, 4}
FetchOutcomes(t) ==
    {[ok |-> FALSE, ticker |-> t, yield |-> 0]}
    \cup {[ok |-> TRUE, ticker |-> t, yield |-> y] : y \in JobYields}

StockData(o) == [ticker |-> o.ticker, yield |-> o.yield]

InitialProgress(r, t) ==
    [completed |-> 0, total |-> t, startedAt |-> r,
     estimatedMinutes |-> Ceil(t, REQUESTS_PER_MINUTE)]

CheckpointProgress_OffByOne(c, f, t, s) ==
    [completed |-> c + 1, total |-> t, startedAt |-> s,
     estimatedMinutes |-> Ceil(t - c - f, REQUESTS_PER_MINUTE)]
CheckpointProgress(c, f, t, s) ==
    [completed |-> c, total |-> t, startedAt |-> s,
     estimatedMinutes |-> Ceil(t - c - f, REQUESTS_PER_MINUTE)]

\* positions between the write of status=running and the end of the loop
LoopPcs == {"init_progress", "check", "fetch", "ckpt_get", "ckpt_set", "sleep"}
InLoop(r) == pc[r] \in LoopPcs

NoObs == [sawRunning |-> FALSE, writes |-> 0, started |-> FALSE,
          cancelled |-> FALSE, fetchAfterCancel |-> FALSE,
          snapBefore |-> None, progress |-> <<>>, outcomes |-> <<>>,
          written |-> None, finished |-> FALSE, threw |-> FALSE,
          httpCached |-> FALSE, ckpts |-> {}, noUniverse |-> FALSE,
          slept |-> <<>>]

OldSnapshot == <<[ticker |-> "OLD", yield |-> 1]>>

\* the record of a symbol as the read-through fetcher caches it
CachedStock(k) == [ticker |-> k, yield |-> 4]

\* the store before the first trigger: the universe and an older snapshot
\* may be there, and the first symbol may be cached by unrelated traffic
JobInit ==
    /\ \E u \in {None} \cup {Some(x) : x \in Universes} :
       \E s \in {None, Some(OldSnapshot)} :
       \E a \in {None, Some(CachedStock("AAA"))} :
          redis = [k \in Keys |->
                     IF k = TICKERS_KEY THEN u
                     ELSE IF k = SNAPSHOT_KEY THEN s
                     ELSE IF k = "AAA" THEN a
                     ELSE None]
    /\ pc = [r \in Runs |-> "idle"]
    /\ kind = [r \in Runs |-> "none"]
    /\ tickers = [r \in Runs |-> <<>>]
    /\ idx = [r \in Runs |-> 0]
    /\ completed = [r \in Runs |-> 0]
    /\ failed = [r \in Runs |-> 0]
    /\ snapshot = [r \in Runs |-> <<>>]
    /\ startedAt = [r \in Runs |-> 0]
    /\ cpc = [c \in Cancels |-> "idle"]
    /\ obs = [r \in Runs |-> NoObs]

\* ------------------------------------------------------------- triggers
\* POST /trigger arrives: the handler awaits getJobStatus
TriggerManual(r) ==
    /\ pc[r] = "idle"
    /\ \A q \in Runs : q < r => pc[q] # "idle"
    /\ pc' = [pc EXCEPT ![r] = "trig_status"]
    /\ kind' = [kind EXCEPT ![r] = "manual"]
    /\ UNCHANGED <<redis, tickers, idx, completed, failed, snapshot,
                   startedAt, cpc, obs>>
    /\ UNCHANGED <<retryVars, fetcherVars, pureVars, batch>>

\* the nightly cron fires: runSnapshotJob is called directly
TriggerCron(r) ==
    /\ pc[r] = "idle"
    /\ \A q \in Runs : q < r => pc[q] # "idle"
    /\ pc' = [pc EXCEPT ![r] = "guard"]
    /\ kind' = [kind EXCEPT ![r] = "cron"]
    /\ UNCHANGED <<redis, tickers, idx, completed, failed, snapshot,
                   startedAt, cpc, obs>>
    /\ UNCHANGED <<retryVars, fetcherVars, pureVars, batch>>

\* POST /trigger: 409 when running, else call runSnapshotJob
TriggerCheck(r) ==
    /\ pc[r] = "trig_status"
    /\ obs' = [obs EXCEPT ![r].sawRunning = @ \/ (getJobStatus = "running")]
    /\ pc' = [pc EXCEPT ![r] =
                IF AlreadyRunning(Some(getJobStatus)) THEN "done" ELSE "guard"]
    /\ UNCHANGED <<redis, kind, tickers, idx, completed, failed, snapshot,
                   startedAt, cpc>>
    /\ UNCHANGED <<retryVars, fetcherVars, pureVars, batch>>

\* runSnapshotJob: the guard
Guard(r) ==
    /\ pc[r] = "guard"
    /\ obs' = [obs EXCEPT ![r].sawRunning = @ \/ (Status = Some("running")),
                          ![r].snapBefore = redis[SNAPSHOT_KEY]]
    /\ pc' = [pc EXCEPT ![r] = IF AlreadyRunning(Status) THEN "done" ELSE "load"]
    /\ UNCHANGED <<redis, kind, tickers, idx, completed, failed, snapshot,
                   startedAt, cpc>>
    /\ UNCHANGED <<retryVars, fetcherVars, pureVars, batch>>

\* getAllTickers with a fallback to an empty universe in place of the throw
AfterLoad_Fallback(raw) == "set_running"

\* getAllTickers: if (!raw) throw new Error('Tickers not in cache. ...')
AfterLoad(raw) == IF IsSome(raw) THEN "set_running" ELSE "threw"

\* getAllTickers
GetAllTickers(r) ==
    /\ pc[r] = "load"
    /\ LET raw == redis[TICKERS_KEY] IN
       /\ tickers' = [tickers EXCEPT ![r] = IF IsSome(raw) THEN Val(raw) ELSE @]
       /\ pc' = [pc EXCEPT ![r] = AfterLoad(raw)]
       /\ obs' = [obs EXCEPT ![r].threw = @ \/ AfterLoad(raw) = "threw",
                             ![r].noUniverse = ~IsSome(raw)]
    /\ UNCHANGED <<redis, kind, idx, completed, failed, snapshot,
                   startedAt, cpc>>
    /\ UNCHANGED <<retryVars, fetcherVars, pureVars, batch>>

SetRunning(r) ==
    /\ pc[r] = "set_running"
    /\ redis' = [redis EXCEPT ![JOB_STATUS_KEY] = Some("running")]
    /\ pc' = [pc EXCEPT ![r] = "init_progress"]
    /\ obs' = [obs EXCEPT ![r].writes = @ + 1, ![r].started = TRUE]
    /\ UNCHANGED <<kind, tickers, idx, completed, failed, snapshot,
                   startedAt, cpc>>
    /\ UNCHANGED <<retryVars, fetcherVars, pureVars, batch>>

WriteInitialProgress(r) ==
    /\ pc[r] = "init_progress"
    /\ LET p == InitialProgress(r, total(r)) IN
       /\ redis' = [redis EXCEPT ![JOB_PROGRESS_KEY] = Some(p)]
       /\ obs' = [obs EXCEPT ![r].writes = @ + 1,
                             ![r].progress = Append(@, p)]
    /\ idx' = [idx EXCEPT ![r] = 1]
    /\ pc' = [pc EXCEPT ![r] = IF total(r) = 0 THEN "persist" ELSE "check"]
    /\ UNCHANGED <<kind, tickers, completed, failed, snapshot,
                   startedAt, cpc>>
    /\ UNCHANGED <<retryVars, fetcherVars, pureVars, batch>>

\* top of an iteration: re-read the status.  This read is the one command
\* of a run for which the model lets the store be unreachable: the command
\* rejects and runSnapshotJob, which has no catch around it, rejects too.
CheckCancelled(r) ==
    /\ pc[r] = "check"
    /\ \E reachable \in BOOLEAN :
         IF ~reachable
            THEN /\ pc' = [pc EXCEPT ![r] = "threw"]
                 /\ obs' = [obs EXCEPT ![r].threw = TRUE]
         ELSE IF StillRunning(Status)
            THEN /\ pc' = [pc EXCEPT ![r] = "fetch"]
                 /\ obs' = [obs EXCEPT ![r].fetchAfterCancel =
                                            @ \/ obs[r].cancelled]
            ELSE /\ pc' = [pc EXCEPT ![r] = "done"]
                 /\ obs' = obs
    /\ UNCHANGED <<redis, kind, tickers, idx, completed, failed, snapshot,
                   startedAt, cpc>>
    /\ UNCHANGED <<retryVars, fetcherVars, pureVars, batch>>

\* a catch block that does not count the failure
NextFailed_NotCounted(f, ok) == f

\* catch (err) { ...; failed++; }
NextFailed(f, ok) == IF ok THEN f ELSE f + 1

\* the fetch of the current symbol returns or throws.  The job calls
\* fetchStockFundamentals, which builds the URL and calls fetchWithRetry: the
\* symbol's cache entry is never read, an HTTP request is always made.
FetchSymbol(r) ==
    /\ pc[r] = "fetch"
    /\ \E o \in FetchOutcomes(tickers[r][idx[r]]) :
         LET c == IF o.ok THEN completed[r] + 1 ELSE completed[r] IN
         /\ completed' = [completed EXCEPT ![r] = c]
         /\ failed' = [failed EXCEPT ![r] = NextFailed(@, o.ok)]
         /\ snapshot' = [snapshot EXCEPT ![r] =
                           IF o.ok /\ PaysDividend(o.yield)
                              THEN Append(@, StockData(o)) ELSE @]
         /\ obs' = [obs EXCEPT
                       ![r].outcomes = Append(@, o),
                       ![r].httpCached =
                           @ \/ IsSome(redis[tickers[r][idx[r]]])]
         /\ pc' = [pc EXCEPT ![r] =
                     IF CheckpointDue(c, total(r)) THEN "ckpt_get" ELSE "sleep"]
    /\ UNCHANGED <<redis, kind, tickers, idx, startedAt, cpc>>
    /\ UNCHANGED <<retryVars, fetcherVars, pureVars, batch>>

\* checkpoint: read the stored progress back for its startedAt
CheckpointRead(r) ==
    /\ pc[r] = "ckpt_get"
    /\ startedAt' = [startedAt EXCEPT ![r] =
                       IF IsSome(redis[JOB_PROGRESS_KEY])
                          THEN Val(redis[JOB_PROGRESS_KEY]).startedAt ELSE 0]
    /\ pc' = [pc EXCEPT ![r] = "ckpt_set"]
    /\ UNCHANGED <<redis, kind, tickers, idx, completed, failed, snapshot,
                   cpc, obs>>
    /\ UNCHANGED <<retryVars, fetcherVars, pureVars, batch>>

CheckpointWrite(r) ==
    /\ pc[r] = "ckpt_set"
    /\ LET p == CheckpointProgress(completed[r], failed[r], total(r),
                                   startedAt[r]) IN
       /\ redis' = [redis EXCEPT ![JOB_PROGRESS_KEY] = Some(p)]
       /\ obs' = [obs EXCEPT ![r].writes = @ + 1,
                             ![r].progress = Append(@, p),
                             ![r].ckpts = @ \cup {idx[r]}]
    /\ pc' = [pc EXCEPT ![r] = "sleep"]
    /\ UNCHANGED <<kind, tickers, idx, completed, failed, snapshot,
                   startedAt, cpc>>
    /\ UNCHANGED <<retryVars, fetcherVars, pureVars, batch>>

\* an iterator that steps over every second element
NextIndex_Skipping(i) == i + 2

\* for (const ticker of tickers): the iterator moves to the next element
NextIndex(i) == i + 1

\* the rate-limit throttle elapses; the for-of loop advances
Throttle(r) ==
    /\ pc[r] = "sleep"
    /\ idx' = [idx EXCEPT ![r] = NextIndex(@)]
    /\ pc' = [pc EXCEPT ![r] =
                IF NextIndex(idx[r]) > total(r) THEN "persist" ELSE "check"]
    /\ obs' = [obs EXCEPT ![r].slept = Append(@, idx[r])]
    /\ UNCHANGED <<redis, kind, tickers, completed, failed, snapshot,
                   startedAt, cpc>>
    /\ UNCHANGED <<retryVars, fetcherVars, pureVars, batch>>

PersistSnapshot(r) ==
    /\ pc[r] = "persist"
    /\ redis' = [redis EXCEPT ![SNAPSHOT_KEY] = Some(snapshot[r])]
    /\ obs' = [obs EXCEPT ![r].writes = @ + 1, ![r].written = Some(snapshot[r])]
    /\ pc' = [pc EXCEPT ![r] = "set_idle"]
    /\ UNCHANGED <<kind, tickers, idx, completed, failed, snapshot,
                   startedAt, cpc>>
    /\ UNCHANGED <<retryVars, fetcherVars, pureVars, batch>>

SetIdle(r) ==
    /\ pc[r] = "set_idle"
    /\ redis' = [redis EXCEPT ![JOB_STATUS_KEY] = Some("idle")]
    /\ obs' = [obs EXCEPT ![r].writes = @ + 1, ![r].finished = TRUE]
    /\ pc' = [pc EXCEPT ![r] = "done"]
    /\ UNCHANGED <<kind, tickers, idx, completed, failed, snapshot,
                   startedAt, cpc>>
    /\ UNCHANGED <<retryVars, fetcherVars, pureVars, batch>>

\* the caller's .catch of a rejected runSnapshotJob
TriggerCatch(r) ==
    /\ pc[r] = "threw"
    /\ kind[r] = "manual"
    /\ redis' = [redis EXCEPT ![JOB_STATUS_KEY] = Some("failed")]
    /\ pc' = [pc EXCEPT ![r] = "done"]
    /\ UNCHANGED <<kind, tickers, idx, completed, failed, snapshot,
                   startedAt, cpc, obs>>
    /\ UNCHANGED <<retryVars, fetcherVars, pureVars, batch>>

CronCatch(r) ==
    /\ pc[r] = "threw"
    /\ kind[r] = "cron"
    /\ pc' = [pc EXCEPT ![r] = "done"]
    /\ UNCHANGED <<redis, kind, tickers, idx, completed, failed, snapshot,
                   startedAt, cpc, obs>>
    /\ UNCHANGED <<retryVars, fetcherVars, pureVars, batch>>

\* ------------------------------------------------------------- cancel
\* DELETE /cancel arrives and reads the status
CancelCheck(c) ==
    /\ cpc[c] = "idle"
    /\ \A d \in Cancels : d < c => cpc[d] # "idle"
    /\ cpc' = [cpc EXCEPT ![c] =
                 IF getJobStatus # "running" THEN "done" ELSE "cancel"]
    /\ UNCHANGED <<redis, pc, kind, tickers, idx, completed, failed,
                   snapshot, startedAt, obs>>
    /\ UNCHANGED <<retryVars, fetcherVars, pureVars, batch>>

\* cancelJob
cancelJob(c) ==
    /\ cpc[c] = "cancel"
    /\ redis' = [redis EXCEPT ![JOB_STATUS_KEY] = Some("idle")]
    /\ obs' = [r \in Runs |->
                 IF InLoop(r) THEN [obs[r] EXCEPT !.cancelled = TRUE]
                 ELSE obs[r]]
    /\ cpc' = [cpc EXCEPT ![c] = "done"]
    /\ UNCHANGED <<pc, kind, tickers, idx, completed, failed, snapshot,
                   startedAt>>
    /\ UNCHANGED <<retryVars, fetcherVars, pureVars, batch>>

JobNext ==
    \/ \E r \in Runs : TriggerManual(r)
    \/ \E r \in Runs : TriggerCron(r)
    \/ \E r \in Runs : TriggerCheck(r)
    \/ \E r \in Runs : Guard(r)
    \/ \E r \in Runs : GetAllTickers(r)
    \/ \E r \in Runs : SetRunning(r)
    \/ \E r \in Runs : WriteInitialProgress(r)
    \/ \E r \in Runs : CheckCancelled(r)
    \/ \E r \in Runs : FetchSymbol(r)
    \/ \E r \in Runs : CheckpointRead(r)
    \/ \E r \in Runs : CheckpointWrite(r)
    \/ \E r \in Runs : Throttle(r)
    \/ \E r \in Runs : PersistSnapshot(r)
    \/ \E r \in Runs : SetIdle(r)
    \/ \E r \in Runs : TriggerCatch(r)
    \/ \E r \in Runs : CronCatch(r)
    \/ \E c \in Cancels : CancelCheck(c)
    \/ \E c \in Cancels : cancelJob(c)


\* ------------------------------------------------------------------
\* The resilient HTTP client: fetchWithTimeout, getRetryDelay, fetchWithRetry
\* ------------------------------------------------------------------
MaxRetriesArg == 3

INITIAL_RETRY_DELAY == 1000
MAX_RETRY_DELAY == 10000

\* Math.random() * 1000 lies in [0, 1000): the two ends, in whole ms
Jitters == {0, 999}

Min(a, b) == IF a <= b THEN a ELSE b

RECURSIVE Pow2(_)
Pow2(n) == IF n <= 0 THEN 1 ELSE 2 * Pow2(n - 1)

\* jitter stands for Math.random() * 1000
getRetryDelay_Uncapped(a, jitter) == INITIAL_RETRY_DELAY * Pow2(a) + jitter
getRetryDelay(a, jitter) ==
    Min(INITIAL_RETRY_DELAY * Pow2(a), MAX_RETRY_DELAY) + jitter

\* parseInt of the Retry-After values the model sends
parseInt(h) == CASE h = "2" -> 2
                 [] h = "30" -> 30
                 [] h = "0" -> 0
                 [] OTHER -> 0

Err(name, message) == [name |-> name, message |-> message]
NoErr == Err("", "")
NetworkError(m) == Err("NetworkError", m)
RateLimitError_AsNetwork(m) == Err("NetworkError", m)
RateLimitError(m) == Err("RateLimitError", m)
ValidationError(m) == Err("ValidationError", m)

\* the Retry-After values a 429 response carries, in seconds
RetryAfterValues == {"0", "2", "30"}

\* what one call of fetch() can end in: a response with its status, its
\* Retry-After header and whether its body parses; the abort of the request
\* by the timeout; a rejection of fetch itself (no connection)
HttpResponse(st, ra, ok) ==
    [type |-> "http", status |-> st, retryAfter |-> ra, bodyOk |-> ok]
Responses ==
    {HttpResponse(st, None, TRUE) : st \in {200, 304, 400, 404, 429, 503}}
    \cup {HttpResponse(200, None, FALSE)}
    \cup {HttpResponse(429, Some(h), TRUE) : h \in RetryAfterValues}
    \cup {[type |-> "timeout", status |-> 0, retryAfter |-> None, bodyOk |-> TRUE],
          [type |-> "reject", status |-> 0, retryAfter |-> None, bodyOk |-> TRUE]}

Is5xx(resp) == resp.type = "http" /\ resp.status >= 500 /\ resp.status < 600

\* Response.ok
ResponseOk(st) == st >= 200 /\ st <= 299

Throw(e) == [act |-> "throw", delay |-> 0, err |-> e]
SleepThenContinue(d) == [act |-> "sleep", delay |-> d, err |-> NoErr]
Return == [act |-> "return", delay |-> 0, err |-> NoErr]

\* the budget test that guards both in-line retries
RetriesLeft_Inclusive(a, n) == a <= n
RetriesLeft(a, n) == a < n

\* the delay after a 429: retryAfter ? parseInt(retryAfter) * 1000
\*                                   : getRetryDelay(attempt)
RetryAfterDelay_Seconds(resp, a, jitter) ==
    IF IsSome(resp.retryAfter) /\ Val(resp.retryAfter) # ""
       THEN parseInt(Val(resp.retryAfter))
       ELSE getRetryDelay(a, jitter)
RetryAfterDelay(resp, a, jitter) ==
    IF IsSome(resp.retryAfter) /\ Val(resp.retryAfter) # ""
       THEN parseInt(Val(resp.retryAfter)) * 1000
       ELSE getRetryDelay(a, jitter)

\* the try block of one loop iteration, including fetchWithTimeout
TryBody(resp, a, n, jitter) ==
    IF resp.type = "timeout" THEN Throw(NetworkError("Request timeout"))
    ELSE IF resp.type = "reject" THEN Throw(Err("TypeError", "fetch failed"))
    ELSE IF resp.status = 429 THEN
        IF RetriesLeft(a, n)
           THEN SleepThenContinue(RetryAfterDelay(resp, a, jitter))
           ELSE Throw(RateLimitError("API rate limit exceeded"))
    ELSE IF resp.status >= 500 /\ resp.status < 600 THEN
        IF RetriesLeft(a, n)
           THEN SleepThenContinue(getRetryDelay(a, jitter))
           ELSE Throw(NetworkError("Server error"))
    ELSE IF resp.status >= 400 /\ resp.status < 500 THEN
        Throw(ValidationError("Client error"))
    ELSE IF ResponseOk(resp.status) THEN
        IF resp.bodyOk THEN Return
        ELSE Throw(Err("SyntaxError", "Unexpected token"))
    ELSE Throw(NetworkError("Unexpected status"))

\* the catch block: which errors it throws on
CatchRethrows_SkipsValidation(e) ==
    \/ e.name = "RateLimitError"
    \/ (e.name \notin {"NetworkError", "ValidationError"}
           /\ e.message # "Request timeout")
CatchRethrows_TaggedOnly(e) ==
    e.name = "ValidationError" \/ e.name = "RateLimitError"
CatchRethrows(e) ==
    \/ e.name = "ValidationError"
    \/ e.name = "RateLimitError"
    \/ (e.name # "NetworkError" /\ e.message # "Request timeout")

\* the for loop's condition
LoopContinues_OneMore(a, n) == a <= n + 1
LoopContinues(a, n) == a <= n

\* throw lastError || new NetworkError('Max retries exceeded')
Exhausted(e) ==
    [kind |-> "error",
     err |-> IF e = NoErr THEN NetworkError("Max retries exceeded") ELSE e]

RetryIdle ==
    /\ rpc = "idle"
    /\ maxRetries = 0
    /\ attempt = 0
    /\ lastError = NoErr
    /\ rresult = [kind |-> "none", err |-> NoErr]
    /\ rlog = <<>>
    /\ rsleeps = <<>>

\* a caller invokes fetchWithRetry(url, options, parse, n)
fetchWithRetry ==
    /\ rpc = "idle"
    /\ \E n \in 0..MaxRetriesArg :
         /\ maxRetries' = n
         /\ attempt' = 0
         /\ IF LoopContinues(0, n)
               THEN rpc' = "attempt" /\ rresult' = rresult
               ELSE rpc' = "done" /\ rresult' = Exhausted(lastError)
    /\ UNCHANGED <<lastError, rlog, rsleeps>>
    /\ UNCHANGED <<jobVars, fetcherVars, pureVars, batch>>

\* one HTTP attempt ends; the loop body runs up to its next await
HttpAttempt ==
    /\ rpc = "attempt"
    /\ \E resp \in Responses, jitter \in Jitters :
         LET o == TryBody(resp, attempt, maxRetries, jitter) IN
         /\ rlog' = Append(rlog, resp)
         /\ IF o.act = "return"
               THEN /\ rpc' = "done"
                    /\ rresult' = [kind |-> "value", err |-> NoErr]
                    /\ UNCHANGED <<attempt, lastError, rsleeps>>
            ELSE IF o.act = "sleep"
               THEN /\ rpc' = "sleep"
                    /\ rsleeps' = Append(rsleeps, o.delay)
                    /\ UNCHANGED <<attempt, lastError, rresult>>
            ELSE /\ lastError' = o.err
                 /\ IF CatchRethrows(o.err)
                       THEN /\ rpc' = "done"
                            /\ rresult' = [kind |-> "error", err |-> o.err]
                            /\ UNCHANGED <<attempt, rsleeps>>
                    ELSE IF RetriesLeft(attempt, maxRetries)
                       THEN /\ rpc' = "sleep"
                            /\ rsleeps' = Append(rsleeps,
                                                 getRetryDelay(attempt, jitter))
                            /\ UNCHANGED <<attempt, rresult>>
                    ELSE /\ attempt' = attempt + 1
                         /\ rsleeps' = rsleeps
                         /\ IF LoopContinues(attempt + 1, maxRetries)
                               THEN rpc' = "attempt" /\ rresult' = rresult
                               ELSE rpc' = "done" /\ rresult' = Exhausted(o.err)
    /\ UNCHANGED maxRetries
    /\ UNCHANGED <<jobVars, fetcherVars, pureVars, batch>>

\* the delay elapses; the loop goes to its next iteration
RetrySleepDone ==
    /\ rpc = "sleep"
    /\ attempt' = attempt + 1
    /\ IF LoopContinues(attempt + 1, maxRetries)
          THEN rpc' = "attempt" /\ rresult' = rresult
          ELSE rpc' = "done" /\ rresult' = Exhausted(lastError)
    /\ UNCHANGED <<maxRetries, lastError, rlog, rsleeps>>
    /\ UNCHANGED <<jobVars, fetcherVars, pureVars, batch>>

RetryNext ==
    \/ fetchWithRetry
    \/ HttpAttempt
    \/ RetrySleepDone

\* ------------------------------------------------------------------
\* The read-through fetcher: fetcher(key, redisClient)
\* ------------------------------------------------------------------
MaxCalls == 2
MAX_RETRIES == 3

Calls == 1..MaxCalls
FetcherKeys == {TICKERS_KEY, "AAA", "BBB", ""}


\* HTTP attempts one fetchWithRetry call can make: one, or the whole budget
AttemptCounts == {1, MAX_RETRIES + 1}

\* how fetchTickers / fetchStockFundamentals can end for a key: the data, or
\* a thrown error, with the number of HTTP attempts made on the way.  A
\* missing API credential throws before any request.
Upstream(k) ==
    {[ok |-> TRUE, err |-> NoErr, attempts |-> a,
      data |-> Some(IF k = TICKERS_KEY THEN Universe(MaxTickers)
                    ELSE [ticker |-> k, yield |-> y])] :
        a \in AttemptCounts, y \in JobYields}
    \cup {[ok |-> FALSE, err |-> e, attempts |-> a, data |-> None] :
            a \in AttemptCounts,
            e \in {RateLimitError("API rate limit exceeded"),
                   ValidationError("Client error"),
                   NetworkError("Server error"),
                   Err("TypeError", "fetch failed")}}
    \cup (IF k = TICKERS_KEY THEN {}
          ELSE {[ok |-> FALSE, attempts |-> 0, data |-> None,
                 err |-> Err("Error", "ALPHA_VANTAGE_API_KEY environment variable not set")]})

\* the catch block of fetcher: the structured payload for an error
ErrorPayload_NetworkAsUnknown(e) ==
    IF e.name = "RateLimitError"
       THEN [error |-> "RATE_LIMIT", data |-> None,
             message |-> "API rate limit exceeded. Please try again later."]
    ELSE IF e.name = "ValidationError"
       THEN [error |-> "VALIDATION_ERROR", data |-> None, message |-> e.message]
    ELSE [error |-> "UNKNOWN_ERROR", data |-> None,
          message |-> "An unexpected error occurred."]
ErrorPayload(e) ==
    IF e.name = "RateLimitError"
       THEN [error |-> "RATE_LIMIT", data |-> None,
             message |-> "API rate limit exceeded. Please try again later."]
    ELSE IF e.name = "ValidationError"
       THEN [error |-> "VALIDATION_ERROR", data |-> None, message |-> e.message]
    ELSE IF e.name = "NetworkError"
       THEN [error |-> "NETWORK_ERROR", data |-> None,
             message |-> "Network error occurred. Please try again."]
    ELSE [error |-> "UNKNOWN_ERROR", data |-> None,
          message |-> "An unexpected error occurred."]

DataPayload(v) == [error |-> "", data |-> v, message |-> ""]
NoPayload == [error |-> "none", data |-> None, message |-> ""]

\* if (!key || typeof key !== 'string')
InvalidKey(k) == k = ""

\* if (cachedValue)
CacheHit_Never(v) == FALSE
CacheHit(v) == IsSome(v)

\* cause: the name of the error the try block of the call threw, if any
NoFObs == [got |-> FALSE, seen |-> None, http |-> 0, writes |-> 0,
           cause |-> ""]

FetcherIdle ==
    /\ fpc = [c \in Calls |-> "idle"]
    /\ fkey = [c \in Calls |-> ""]
    /\ fdata = [c \in Calls |-> None]
    /\ fresult = [c \in Calls |-> NoPayload]
    /\ fobs = [c \in Calls |-> NoFObs]

\* a route handler (or fetchBatch) calls fetcher(k, redisClient)
fetcher(c) ==
    /\ fpc[c] = "idle"
    /\ \A d \in Calls : d < c => fpc[d] # "idle"
    /\ \E k \in FetcherKeys :
         /\ fkey' = [fkey EXCEPT ![c] = k]
         /\ IF InvalidKey(k)
               THEN /\ fpc' = [fpc EXCEPT ![c] = "done"]
                    /\ fresult' = [fresult EXCEPT ![c] =
                          ErrorPayload(ValidationError("Invalid key provided"))]
                    /\ fobs' = [fobs EXCEPT ![c].cause = "ValidationError"]
               ELSE /\ fpc' = [fpc EXCEPT ![c] = "get"]
                    /\ fresult' = fresult
                    /\ fobs' = fobs
    /\ UNCHANGED fdata
    /\ UNCHANGED <<jobVars, retryVars, pureVars, batch>>

\* await redisClient.get(key) returns, or throws when the store is unreachable
FetcherCacheGet(c) ==
    /\ fpc[c] = "get"
    /\ \E reachable \in BOOLEAN :
         IF ~reachable
            THEN /\ fpc' = [fpc EXCEPT ![c] = "done"]
                 /\ fresult' = [fresult EXCEPT ![c] =
                       ErrorPayload(Err("Error", "The client is closed"))]
                 /\ fobs' = [fobs EXCEPT ![c].seen = redis[fkey[c]],
                                         ![c].cause = "Error"]
            ELSE /\ fobs' = [fobs EXCEPT ![c].seen = redis[fkey[c]],
                                         ![c].got = TRUE]
                 /\ IF CacheHit(redis[fkey[c]])
                       THEN /\ fpc' = [fpc EXCEPT ![c] = "done"]
                            /\ fresult' = [fresult EXCEPT ![c] =
                                             DataPayload(redis[fkey[c]])]
                       ELSE /\ fpc' = [fpc EXCEPT ![c] = "fetch"]
                            /\ fresult' = fresult
    /\ UNCHANGED <<fkey, fdata>>
    /\ UNCHANGED <<jobVars, retryVars, pureVars, batch>>

\* fetchTickers() or fetchStockFundamentals(key) returns or throws
FetcherUpstream(c) ==
    /\ fpc[c] = "fetch"
    /\ \E o \in Upstream(fkey[c]) :
         /\ fobs' = [fobs EXCEPT ![c].http = @ + o.attempts,
                                 ![c].cause = o.err.name]
         /\ IF o.ok
               THEN /\ fdata' = [fdata EXCEPT ![c] = o.data]
                    /\ fpc' = [fpc EXCEPT ![c] = "set"]
                    /\ fresult' = fresult
               ELSE /\ fdata' = fdata
                    /\ fpc' = [fpc EXCEPT ![c] = "done"]
                    /\ fresult' = [fresult EXCEPT ![c] = ErrorPayload(o.err)]
    /\ UNCHANGED fkey
    /\ UNCHANGED <<jobVars, retryVars, pureVars, batch>>

\* a write of the record of AAA that goes to the key of BBB
CacheKey_Swapped(k) == IF k = "AAA" THEN "BBB" ELSE k

\* the key of the write: redisClient.set('tickers', ...) in the tickers
\* branch, redisClient.set(key, ...) in the stock branch
CacheKey(k) == IF k = TICKERS_KEY THEN TICKERS_KEY ELSE k

\* await redisClient.set(key, json, {EX}) returns, or throws
FetcherCacheSet(c) ==
    /\ fpc[c] = "set"
    /\ \E reachable \in BOOLEAN :
         IF reachable
            THEN /\ redis' = [redis EXCEPT ![CacheKey(fkey[c])] = fdata[c]]
                 /\ fobs' = [fobs EXCEPT ![c].writes = @ + 1]
                 /\ fresult' = [fresult EXCEPT ![c] = DataPayload(fdata[c])]
            ELSE /\ redis' = redis
                 /\ fobs' = [fobs EXCEPT ![c].cause = "Error"]
                 /\ fresult' = [fresult EXCEPT ![c] =
                       ErrorPayload(Err("Error", "The client is closed"))]
    /\ fpc' = [fpc EXCEPT ![c] = "done"]
    /\ UNCHANGED <<fkey, fdata>>
    /\ UNCHANGED <<jobLocals, retryVars, pureVars, batch>>

\* the time-to-live of a cached entry runs out
CacheExpire ==
    /\ \E k \in FetcherKeys \ {""} :
         /\ IsSome(redis[k])
         /\ redis' = [redis EXCEPT ![k] = None]
    /\ UNCHANGED <<jobLocals, retryVars, fetcherVars, pureVars, batch>>

FetcherNext ==
    \/ \E c \in Calls : fetcher(c)
    \/ \E c \in Calls : FetcherCacheGet(c)
    \/ \E c \in Calls : FetcherUpstream(c)
    \/ \E c \in Calls : FetcherCacheSet(c)
    \/ CacheExpire


\* ------------------------------------------------------------------
\* fetchStockFundamentals and getSectorTranslation (dataFetcher.ts)
\* ------------------------------------------------------------------
\* A sector string is held as its lower-case form together with its letter
\* case, so that toLowerCase has something to do: Title("real estate") is
\* "Real Estate", Upper("energy") is "ENERGY".
Lower(b) == [base |-> b, casing |-> "lower"]
Title(b) == [base |-> b, casing |-> "title"]
Upper(b) == [base |-> b, casing |-> "upper"]

\* String.prototype.toLowerCase
toLowerCase_Identity(s) == s
toLowerCase(s) == [base |-> s.base, casing |-> "lower"]

\* the case labels of the switch, group by group in source order
ManufacturingKeys ==
    {Lower("technology"), Lower("industrials"), Lower("basic materials")}
ServicesKeys ==
    {Lower("healthcare"), Lower("financial services"),
     Lower("communication services")}
AgricultureKeys == {Lower("basic materials")}
RetailKeys == {Lower("consumer cyclical"), Lower("consumer defensive")}
PropertyKeys == {Lower("real estate")}
EnergyKeys_UtilitiesOnly == {Lower("utilities")}
EnergyKeys == {Lower("utilities"), Lower("energy")}

\* the switch statement: the first matching case label wins
SwitchSector(l) ==
    IF l \in ManufacturingKeys THEN Title("manufacturing")
    ELSE IF l \in ServicesKeys THEN Title("services")
    ELSE IF l \in AgricultureKeys THEN Title("agriculture")
    ELSE IF l \in RetailKeys THEN Title("retail")
    ELSE IF l \in PropertyKeys THEN Title("property")
    ELSE IF l \in EnergyKeys THEN Title("energy")
    ELSE Title("unknown")

getSectorTranslation(sector) == SwitchSector(toLowerCase(sector))

\* the sector strings the model feeds in: every case label, every output
\* label and two strings outside both, each in three letter cases, and the
\* strings without letters
SectorBases ==
    {"technology", "industrials", "basic materials", "healthcare",
     "financial services", "communication services", "consumer cyclical",
     "consumer defensive", "real estate", "utilities", "energy",
     "manufacturing", "services", "agriculture", "retail", "property",
     "unknown", "crypto", "energy "}
SectorInputs ==
    {Lower(b) : b \in SectorBases} \cup {Title(b) : b \in SectorBases}
    \cup {Upper(b) : b \in SectorBases} \cup {Lower(""), Lower("42")}

\* A DividendYield string is held as the sequence of its characters, so
\* that parseFloat has something to parse.
DigitChars == {"0", "1", "2", "3", "4", "5", "6", "7", "8", "9"}
DigitVal(c) ==
    CASE c = "0" -> 0 [] c = "1" -> 1 [] c = "2" -> 2 [] c = "3" -> 3
      [] c = "4" -> 4 [] c = "5" -> 5 [] c = "6" -> 6 [] c = "7" -> 7
      [] c = "8" -> 8 [] c = "9" -> 9

RECURSIVE Pow10(_)
Pow10(n) == IF n = 0 THEN 1 ELSE 10 * Pow10(n - 1)

\* the index after the white space that starts at i
RECURSIVE SkipWhiteSpace(_, _)
SkipWhiteSpace(s, i) ==
    IF i <= Len(s) /\ s[i] = " " THEN SkipWhiteSpace(s, i + 1) ELSE i

\* the index after the run of digits that starts at i
RECURSIVE ScanDigits(_, _)
ScanDigits(s, i) ==
    IF i <= Len(s) /\ s[i] \in DigitChars THEN ScanDigits(s, i + 1) ELSE i

\* the number the digits s[i..j-1] spell
RECURSIVE DigitsValue(_, _, _)
DigitsValue(s, i, j) ==
    IF i >= j THEN 0 ELSE DigitsValue(s, i, j - 1) * 10 + DigitVal(s[j - 1])

\* a number is num / 10^scale, or NaN
NaN == [nan |-> TRUE, num |-> 0, scale |-> 0]
Dec(n, sc) == [nan |-> FALSE, num |-> n, scale |-> sc]
isNaN(x) == x.nan

\* parseFloat: white space, an optional sign, the longest decimal literal
\* (digits, an optional fraction, an optional exponent); NaN when no digit
\* is found; whatever follows the literal is ignored
parseFloat(s) ==
    LET i0 == SkipWhiteSpace(s, 1)
        signed == i0 <= Len(s) /\ s[i0] \in {"+", "-"}
        sign == IF signed /\ s[i0] = "-" THEN -1 ELSE 1
        i1 == IF signed THEN i0 + 1 ELSE i0
        i2 == ScanDigits(s, i1)
        hasDot == i2 <= Len(s) /\ s[i2] = "."
        i3 == IF hasDot THEN ScanDigits(s, i2 + 1) ELSE i2
        nInt == i2 - i1
        nFrac == IF hasDot THEN i3 - (i2 + 1) ELSE 0
        mant == DigitsValue(s, i1, i2) * Pow10(nFrac)
                  + (IF hasDot THEN DigitsValue(s, i2 + 1, i3) ELSE 0)
        hasE == i3 <= Len(s) /\ s[i3] \in {"e", "E"}
        eSigned == hasE /\ i3 + 1 <= Len(s) /\ s[i3 + 1] \in {"+", "-"}
        e1 == IF eSigned THEN i3 + 2 ELSE i3 + 1
        e2 == IF hasE THEN ScanDigits(s, e1) ELSE e1
        hasExp == hasE /\ e2 > e1
        ex == IF ~hasExp THEN 0
              ELSE IF eSigned /\ s[i3 + 1] = "-" THEN 0 - DigitsValue(s, e1, e2)
              ELSE DigitsValue(s, e1, e2)
    IN  IF nInt + nFrac = 0 THEN NaN
        ELSE IF ex >= nFrac THEN Dec(sign * mant * Pow10(ex - nFrac), 0)
        ELSE Dec(sign * mant, nFrac - ex)

\* dividendYield = parsed * 100
ToPercent_Unscaled(parsed) == parsed
ToPercent(parsed) == Dec(parsed.num * 100, parsed.scale)

\* the DividendYield strings the model feeds in
RawYields ==
    {<<"N", "o", "n", "e">>, <<"-">>, <<>>, <<"a", "b", "c">>, <<"0">>,
     <<"0", ".", "0", "5">>, <<"0", ".", "0", "3", "2", "1">>,
     <<"-", "0", ".", "0", "2">>, <<"5">>, <<"0", ".", "0", "5", "x">>,
     <<".", "5">>, <<"1", "e", "-", "2">>, <<" ", "0", ".", "0", "7">>}

\* let dividendYield = 0; if (...) { parsed = parseFloat(...); ... }
ParseDividendYield(raw) ==
    IF IsSome(raw) /\ Val(raw) # <<>>
       /\ Val(raw) # <<"N", "o", "n", "e">> /\ Val(raw) # <<"-">>
       THEN LET parsed == parseFloat(Val(raw)) IN
            IF ~isNaN(parsed) THEN ToPercent(parsed) ELSE Dec(0, 0)
       ELSE Dec(0, 0)

\* the parsed body of the OVERVIEW answer (AlphaVantageResponse)
AlphaVantageResponse(em, note, sym, sec, dy) ==
    [ErrorMessage |-> em, Note |-> note, Symbol |-> sym, Sector |-> sec,
     DividendYield |-> dy]
AlphaVantageResponses ==
    {AlphaVantageResponse(em, note, sym, sec, dy) :
        em \in {None, Some(""), Some("Invalid API call.")},
        note \in {None, Some(""), Some("Thank you for using Alpha Vantage!")},
        sym \in {None, Some(""), Some("AAA")},
        sec \in {None} \cup {Some(x) : x \in SectorInputs},
        dy \in {None} \cup {Some(y) : y \in RawYields}}

\* a string field is truthy when it is present and not empty
Truthy(field) == IsSome(field) /\ Val(field) # ""

Thrown(e) == [kind |-> "error", err |-> e, record |-> None]
Returned(rec) == [kind |-> "value", err |-> NoErr, record |-> Some(rec)]
NotEnded == [kind |-> "none", err |-> NoErr, record |-> None]

\* the body of fetchStockFundamentals with the test of Note moved before the
\* test of 'Error Message'
MapResponse_NoteFirst(response) ==
    IF Truthy(response.Note)
       THEN Thrown(RateLimitError("Alpha Vantage API rate limit reached"))
    ELSE IF Truthy(response.ErrorMessage)
       THEN Thrown(ValidationError("Invalid ticker symbol"))
    ELSE IF ~Truthy(response.Symbol)
       THEN Thrown(ValidationError("No data found for ticker"))
    ELSE Returned(
           [ticker |-> Val(response.Symbol),
            name |-> Val(response.Symbol),
            sector |-> IF IsSome(response.Sector)
                          /\ Val(response.Sector).base # ""
                          THEN getSectorTranslation(Val(response.Sector))
                          ELSE Title("unknown"),
            yield |-> ParseDividendYield(response.DividendYield)])

\* the body of fetchStockFundamentals after fetchWithRetry has returned
MapResponse(response) ==
    IF Truthy(response.ErrorMessage)
       THEN Thrown(ValidationError("Invalid ticker symbol"))
    ELSE IF Truthy(response.Note)
       THEN Thrown(RateLimitError("Alpha Vantage API rate limit reached"))
    ELSE IF ~Truthy(response.Symbol)
       THEN Thrown(ValidationError("No data found for ticker"))
    ELSE Returned(
           [ticker |-> Val(response.Symbol),
            name |-> Val(response.Symbol),
            sector |-> IF IsSome(response.Sector)
                          /\ Val(response.Sector).base # ""
                          THEN getSectorTranslation(Val(response.Sector))
                          ELSE Title("unknown"),
            yield |-> ParseDividendYield(response.DividendYield)])

\* what fetchWithRetry hands back to fetchStockFundamentals: a parsed body,
\* or one of the errors it throws
RetryOutcomes ==
    {[ok |-> TRUE, err |-> NoErr, body |-> Some(b)] :
        b \in AlphaVantageResponses}
    \cup {[ok |-> FALSE, err |-> e, body |-> None] :
            e \in {RateLimitError("API rate limit exceeded"),
                   ValidationError("Client error"),
                   NetworkError("Server error"),
                   Err("TypeError", "fetch failed")}}

\* no POST /batch request is being served
RouteIdle ==
    [pc |-> "idle", tickers |-> <<>>, status |-> 0, data |-> <<>>,
     errors |-> <<>>, summary |-> [total |-> 0, successful |-> 0, failed |-> 0]]

PureIdle ==
    /\ fund = [pc |-> "idle", apiKey |-> TRUE,
               http |-> [ok |-> FALSE, err |-> NoErr, body |-> None],
               out |-> NotEnded]
    /\ strail = <<>>
    /\ backoff = [next |-> 0, log |-> <<>>]
    /\ route = RouteIdle

\* a call fetchStockFundamentals(ticker) is under way
FundamentalsCalled ==
    /\ \E k \in BOOLEAN, h \in RetryOutcomes :
          fund = [pc |-> "called", apiKey |-> k, http |-> h, out |-> NotEnded]
    /\ strail = <<>>
    /\ backoff = [next |-> 0, log |-> <<>>]
    /\ route = RouteIdle

\* the call runs to its end
fetchStockFundamentals ==
    /\ fund.pc = "called"
    /\ fund' = [fund EXCEPT
                  !.pc = "done",
                  !.out = IF ~fund.apiKey
                             THEN Thrown(Err("Error",
                                   "ALPHA_VANTAGE_API_KEY environment variable not set"))
                          ELSE IF ~fund.http.ok THEN Thrown(fund.http.err)
                          ELSE MapResponse(Val(fund.http.body))]
    /\ UNCHANGED <<strail, backoff, route>>
    /\ UNCHANGED <<jobVars, retryVars, fetcherVars, batch>>

\* the largest attempt index getRetryDelay is applied to
MaxBackoffAttempt == 6

\* getRetryDelay(attempt) is computed for the next attempt index
ComputeRetryDelay ==
    /\ backoff.next <= MaxBackoffAttempt
    /\ \E jitter \in Jitters :
         backoff' = [next |-> backoff.next + 1,
                     log |-> Append(backoff.log,
                                    [attempt |-> backoff.next,
                                     jitter |-> jitter,
                                     delay |-> getRetryDelay(backoff.next,
                                                             jitter)])]
    /\ UNCHANGED <<fund, strail, route>>
    /\ UNCHANGED <<jobVars, retryVars, fetcherVars, batch>>

\* how often getSectorTranslation is applied to its own result
MaxApply == 2

\* getSectorTranslation is applied to the last string of the trail
ApplySectorTranslation ==
    /\ strail # <<>>
    /\ Len(strail) <= MaxApply
    /\ strail' = Append(strail, getSectorTranslation(strail[Len(strail)]))
    /\ UNCHANGED <<fund, backoff, route>>
    /\ UNCHANGED <<jobVars, retryVars, fetcherVars, batch>>


\* ------------------------------------------------------------------
\* fetchBatch (dataFetcher.ts)
\* ------------------------------------------------------------------
MaxBatch == 2
MaxConcurrency == 2

\* one fetcher call per position of the tickers argument
BatchCalls == 1..MaxBatch
BatchSymbols == {"AAA", "BBB", ""}
TickerLists ==
    UNION {[1..n -> BatchSymbols] : n \in 0..MaxBatch}

\* a slice that runs to the end of the list
Window_All(ts, i, conc) == {c \in 1..Len(ts) : i < c}

\* tickers.slice(i, i + concurrency), as positions of the list
Window(ts, i, conc) == {c \in 1..Len(ts) : i < c /\ c <= i + conc}

\* if (parsed.error)
ParsedError_Ignored(payload) == FALSE
ParsedError(payload) == payload.error # ""

\* the value the callback stores for its ticker: new Error(parsed.message),
\* or the parsed record
BatchEntry(payload) ==
    IF ParsedError(payload)
       THEN [isError |-> TRUE, message |-> payload.message, data |-> None]
       ELSE [isError |-> FALSE, message |-> "", data |-> payload.data]

\* Map.prototype.set
MapSet(m, k, v) ==
    [x \in DOMAIN m \cup {k} |-> IF x = k THEN v ELSE m[x]]
EmptyMap == [x \in {} |-> None]

BatchIdle ==
    batch = [pc |-> "idle", tickers |-> <<>>, concurrency |-> 1, i |-> 0,
             results |-> EmptyMap, settled |-> {}, sleeps |-> 0]

\* a call fetchBatch(tickers, redisClient, concurrency) is under way; the
\* store holds any part of the stock data
BatchInit ==
    /\ \E cached \in SUBSET {"AAA", "BBB"} :
          redis = [k \in Keys |->
                     IF k \in cached THEN Some(CachedStock(k)) ELSE None]
    /\ pc = [r \in Runs |-> "idle"]
    /\ kind = [r \in Runs |-> "none"]
    /\ tickers = [r \in Runs |-> <<>>]
    /\ idx = [r \in Runs |-> 0]
    /\ completed = [r \in Runs |-> 0]
    /\ failed = [r \in Runs |-> 0]
    /\ snapshot = [r \in Runs |-> <<>>]
    /\ startedAt = [r \in Runs |-> 0]
    /\ cpc = [c \in Cancels |-> "idle"]
    /\ obs = [r \in Runs |-> NoObs]
    /\ RetryIdle
    /\ PureIdle
    /\ fpc = [c \in BatchCalls |-> "idle"]
    /\ fkey = [c \in BatchCalls |-> ""]
    /\ fdata = [c \in BatchCalls |-> None]
    /\ fresult = [c \in BatchCalls |-> NoPayload]
    /\ fobs = [c \in BatchCalls |-> NoFObs]
    /\ \E ts \in TickerLists, conc \in 1..MaxConcurrency :
          batch = [pc |-> "loop", tickers |-> ts, concurrency |-> conc,
                   i |-> 0, results |-> EmptyMap, settled |-> {},
                   sleeps |-> 0]

\* the loop test; batch.map starts one callback per ticker of the window and
\* each runs fetcher up to its first await
BatchLoop ==
    /\ batch.pc = "loop"
    /\ IF batch.i < Len(batch.tickers)
          THEN LET w == Window(batch.tickers, batch.i, batch.concurrency) IN
               /\ batch' = [batch EXCEPT !.pc = "window", !.settled = {}]
               /\ fkey' = [c \in BatchCalls |->
                             IF c \in w THEN batch.tickers[c] ELSE fkey[c]]
               /\ fpc' = [c \in BatchCalls |->
                            IF c \notin w THEN fpc[c]
                            ELSE IF InvalidKey(batch.tickers[c]) THEN "done"
                            ELSE "get"]
               /\ fresult' = [c \in BatchCalls |->
                                IF c \in w /\ InvalidKey(batch.tickers[c])
                                   THEN ErrorPayload(
                                          ValidationError("Invalid key provided"))
                                   ELSE fresult[c]]
               /\ fobs' = [c \in BatchCalls |->
                             IF c \in w /\ InvalidKey(batch.tickers[c])
                                THEN [fobs[c] EXCEPT !.cause = "ValidationError"]
                                ELSE fobs[c]]
          ELSE /\ batch' = [batch EXCEPT !.pc = "done"]
               /\ UNCHANGED <<fkey, fpc, fresult, fobs>>
    /\ UNCHANGED fdata
    /\ UNCHANGED <<jobVars, retryVars, pureVars>>

\* fetcher has returned to the callback of position c: the callback parses
\* the payload and stores the entry for its ticker
BatchSettle(c) ==
    /\ batch.pc = "window"
    /\ c \in Window(batch.tickers, batch.i, batch.concurrency)
    /\ c \notin batch.settled
    /\ fpc[c] = "done"
    /\ batch' = [batch EXCEPT
                   !.results = MapSet(@, batch.tickers[c], BatchEntry(fresult[c])),
                   !.settled = @ \cup {c}]
    /\ UNCHANGED <<jobVars, retryVars, fetcherVars, pureVars>>

\* the pacing test with <= in place of <
MorePending_Inclusive(i, conc, n) == i + conc <= n

\* if (i + concurrency < tickers.length)
MorePending(i, conc, n) == i + conc < n

\* Promise.all resolves; the pacing test decides on the sleep
BatchWindowEnd ==
    /\ batch.pc = "window"
    /\ batch.settled = Window(batch.tickers, batch.i, batch.concurrency)
    /\ IF MorePending(batch.i, batch.concurrency, Len(batch.tickers))
          THEN batch' = [batch EXCEPT !.pc = "sleep", !.sleeps = @ + 1]
          ELSE batch' = [batch EXCEPT !.pc = "loop",
                                      !.i = @ + batch.concurrency]
    /\ UNCHANGED <<jobVars, retryVars, fetcherVars, pureVars>>

\* the pause between two windows ends
BatchSleepDone ==
    /\ batch.pc = "sleep"
    /\ batch' = [batch EXCEPT !.pc = "loop", !.i = @ + batch.concurrency]
    /\ UNCHANGED <<jobVars, retryVars, fetcherVars, pureVars>>

BatchNext ==
    \/ BatchLoop
    \/ \E c \in BatchCalls : FetcherCacheGet(c)
    \/ \E c \in BatchCalls : FetcherUpstream(c)
    \/ \E c \in BatchCalls : FetcherCacheSet(c)
    \/ \E c \in BatchCalls : BatchSettle(c)
    \/ BatchWindowEnd
    \/ BatchSleepDone


\* ------------------------------------------------------------------
\* POST /api/stocks/batch (routes.ts)
\* ------------------------------------------------------------------
MAX_BATCH_TICKERS == 50
BATCH_CONCURRENCY == 5

\* the strings a request body lists
RequestTickers == {"AAA", "aaa", "Bbb", "A1", ""}
RequestLists == UNION {[1..n -> RequestTickers] : n \in 0..MaxBatch}

\* String.prototype.toUpperCase on the strings of the model
toUpperCase(t) == CASE t = "aaa" -> "AAA"
                    [] t = "Bbb" -> "BBB"
                    [] OTHER -> t

\* /^[A-Z]{1,5}$/.test(u)
MatchesTickerFormat(u) == u \in {"AAA", "BBB"}

\* tickers.filter(t => typeof t !== 'string' || !/^[A-Z]{1,5}$/.test(...))
invalidTickers(ts) ==
    SelectSeq(ts, LAMBDA t : ~MatchesTickerFormat(toUpperCase(t)))

\* the entries of the result map that are (not) instances of Error
ErrorKeys(results) == {k \in DOMAIN results : results[k].isError}
DataKeys(results) == {k \in DOMAIN results : ~results[k].isError}

BadRequest ==
    [route EXCEPT !.pc = "responded", !.status = 400]

\* a request with a tickers array has arrived; the store holds any part of
\* the stock data
RouteBatchInit ==
    /\ \E cached \in SUBSET {"AAA", "BBB"} :
          redis = [k \in Keys |->
                     IF k \in cached THEN Some(CachedStock(k)) ELSE None]
    /\ pc = [r \in Runs |-> "idle"]
    /\ kind = [r \in Runs |-> "none"]
    /\ tickers = [r \in Runs |-> <<>>]
    /\ idx = [r \in Runs |-> 0]
    /\ completed = [r \in Runs |-> 0]
    /\ failed = [r \in Runs |-> 0]
    /\ snapshot = [r \in Runs |-> <<>>]
    /\ startedAt = [r \in Runs |-> 0]
    /\ cpc = [c \in Cancels |-> "idle"]
    /\ obs = [r \in Runs |-> NoObs]
    /\ RetryIdle
    /\ fund = [pc |-> "idle", apiKey |-> TRUE,
               http |-> [ok |-> FALSE, err |-> NoErr, body |-> None],
               out |-> NotEnded]
    /\ strail = <<>>
    /\ backoff = [next |-> 0, log |-> <<>>]
    /\ fpc = [c \in BatchCalls |-> "idle"]
    /\ fkey = [c \in BatchCalls |-> ""]
    /\ fdata = [c \in BatchCalls |-> None]
    /\ fresult = [c \in BatchCalls |-> NoPayload]
    /\ fobs = [c \in BatchCalls |-> NoFObs]
    /\ BatchIdle
    /\ \E ts \in RequestLists :
          route = [RouteIdle EXCEPT !.pc = "received", !.tickers = ts]

\* the handler validates the body and calls fetchBatch on the upper-cased
\* tickers
PostBatch ==
    /\ route.pc = "received"
    /\ IF \/ Len(route.tickers) = 0
          \/ Len(route.tickers) > MAX_BATCH_TICKERS
          \/ Len(invalidTickers(route.tickers)) > 0
          THEN /\ route' = BadRequest
               /\ batch' = batch
          ELSE /\ route' = [route EXCEPT !.pc = "fetching"]
               /\ batch' = [pc |-> "loop",
                            tickers |-> [i \in 1..Len(route.tickers) |->
                                           toUpperCase(route.tickers[i])],
                            concurrency |-> BATCH_CONCURRENCY,
                            i |-> 0, results |-> EmptyMap, settled |-> {},
                            sleeps |-> 0]
    /\ UNCHANGED <<fund, strail, backoff>>
    /\ UNCHANGED <<jobVars, retryVars, fetcherVars>>

\* fetchBatch has returned: the handler splits the map and sends the summary
PostBatchRespond ==
    /\ route.pc = "fetching"
    /\ batch.pc = "done"
    /\ LET results == batch.results
           data == [k \in DataKeys(results) |-> results[k].data]
           errors == [k \in ErrorKeys(results) |-> results[k].message]
       IN route' = [route EXCEPT
                      !.pc = "responded",
                      !.status = 200,
                      !.data = data,
                      !.errors = errors,
                      !.summary = [total |-> Len(route.tickers),
                                   successful |-> Cardinality(DOMAIN data),
                                   failed |-> Cardinality(DOMAIN errors)]]
    /\ UNCHANGED <<fund, strail, backoff>>
    /\ UNCHANGED <<jobVars, retryVars, fetcherVars, batch>>

\* a request of at most BATCH_CONCURRENCY tickers is served in one window,
\* so fetchBatch never pauses
RouteBatchNext ==
    \/ PostBatch
    \/ BatchLoop
    \/ \E c \in BatchCalls : FetcherCacheGet(c)
    \/ \E c \in BatchCalls : FetcherUpstream(c)
    \/ \E c \in BatchCalls : FetcherCacheSet(c)
    \/ \E c \in BatchCalls : BatchSettle(c)
    \/ BatchWindowEnd
    \/ PostBatchRespond


\* ------------------------------------------------------------------
\* Specifications
\* ------------------------------------------------------------------
\* the store and every job task at rest
JobQuiet ==
    /\ redis = [k \in Keys |-> None]
    /\ pc = [r \in Runs |-> "idle"]
    /\ kind = [r \in Runs |-> "none"]
    /\ tickers = [r \in Runs |-> <<>>]
    /\ idx = [r \in Runs |-> 0]
    /\ completed = [r \in Runs |-> 0]
    /\ failed = [r \in Runs |-> 0]
    /\ snapshot = [r \in Runs |-> <<>>]
    /\ startedAt = [r \in Runs |-> 0]
    /\ cpc = [c \in Cancels |-> "idle"]
    /\ obs = [r \in Runs |-> NoObs]

\* the snapshot job with its triggers and cancel requests
Init == JobInit /\ RetryIdle /\ FetcherIdle /\ PureIdle /\ BatchIdle
Next == JobNext
Spec == Init /\ [][Next]_vars

\* the steps one invocation takes by itself once it was triggered: every
\* one is the continuation of an awaited command, fetch or timer
RunStep(r) ==
    \/ TriggerCheck(r)
    \/ Guard(r)
    \/ GetAllTickers(r)
    \/ SetRunning(r)
    \/ WriteInitialProgress(r)
    \/ CheckCancelled(r)
    \/ FetchSymbol(r)
    \/ CheckpointRead(r)
    \/ CheckpointWrite(r)
    \/ Throttle(r)
    \/ PersistSnapshot(r)
    \/ SetIdle(r)
    \/ TriggerCatch(r)
    \/ CronCatch(r)

\* one trigger, manual or cron, with cancel requests at any time
SingleRunNext ==
    \/ TriggerManual(1)
    \/ TriggerCron(1)
    \/ RunStep(1)
    \/ \E c \in Cancels : CancelCheck(c)
    \/ \E c \in Cancels : cancelJob(c)

\* every awaited command, fetch and timer of the run settles, and a cancel
\* handler that has read the status goes on to cancelJob
FairSingleRunSpec ==
    Init /\ [][SingleRunNext]_vars
    /\ WF_vars(RunStep(1)) /\ WF_vars(\E c \in Cancels : cancelJob(c))

\* one call of fetchWithRetry against an arbitrary server
RetryInit == JobQuiet /\ RetryIdle /\ FetcherIdle /\ PureIdle /\ BatchIdle
RetrySpec == RetryInit /\ [][RetryNext]_vars

\* every HTTP attempt ends (fetchWithTimeout aborts it after REQUEST_TIMEOUT)
\* and every timer fires
FairRetrySpec ==
    RetryInit /\ [][RetryNext]_vars
    /\ WF_vars(HttpAttempt) /\ WF_vars(RetrySleepDone)

\* calls of fetcher against a store that holds any part of the cacheable data
FetcherInit ==
    /\ \E cached \in SUBSET (FetcherKeys \ {""}) :
          redis = [k \in Keys |->
                     IF k \notin cached THEN None
                     ELSE IF k = TICKERS_KEY THEN Some(Universe(MaxTickers))
                     ELSE Some(CachedStock(k))]
    /\ pc = [r \in Runs |-> "idle"]
    /\ kind = [r \in Runs |-> "none"]
    /\ tickers = [r \in Runs |-> <<>>]
    /\ idx = [r \in Runs |-> 0]
    /\ completed = [r \in Runs |-> 0]
    /\ failed = [r \in Runs |-> 0]
    /\ snapshot = [r \in Runs |-> <<>>]
    /\ startedAt = [r \in Runs |-> 0]
    /\ cpc = [c \in Cancels |-> "idle"]
    /\ obs = [r \in Runs |-> NoObs]
    /\ RetryIdle
    /\ FetcherIdle
    /\ PureIdle
    /\ BatchIdle
FetcherSpec == FetcherInit /\ [][FetcherNext]_vars

\* one call of fetchBatch on an arbitrary list, with arbitrary fetch outcomes
BatchSpec == BatchInit /\ [][BatchNext]_vars

\* one POST /batch request on an arbitrary list of strings
RouteBatchSpec == RouteBatchInit /\ [][RouteBatchNext]_vars

\* one call of fetchStockFundamentals on an arbitrary answer
FundamentalsInit ==
    JobQuiet /\ RetryIdle /\ FetcherIdle /\ BatchIdle /\ FundamentalsCalled
FundamentalsNext == fetchStockFundamentals
FundamentalsSpec == FundamentalsInit /\ [][FundamentalsNext]_vars

\* getSectorTranslation applied to an arbitrary string and to its results
SectorInit ==
    /\ JobQuiet /\ RetryIdle /\ FetcherIdle /\ BatchIdle
    /\ fund = [pc |-> "idle", apiKey |-> TRUE,
               http |-> [ok |-> FALSE, err |-> NoErr, body |-> None],
               out |-> NotEnded]
    /\ \E x \in SectorInputs : strail = <<x>>
    /\ backoff = [next |-> 0, log |-> <<>>]
    /\ route = RouteIdle
SectorNext == ApplySectorTranslation
SectorSpec == SectorInit /\ [][SectorNext]_vars

\* getRetryDelay applied to consecutive attempt indexes, from any first one
BackoffInit ==
    /\ JobQuiet /\ RetryIdle /\ FetcherIdle /\ BatchIdle
    /\ fund = [pc |-> "idle", apiKey |-> TRUE,
               http |-> [ok |-> FALSE, err |-> NoErr, body |-> None],
               out |-> NotEnded]
    /\ strail = <<>>
    /\ \E k \in 0..MaxBackoffAttempt : backoff = [next |-> k, log |-> <<>>]
    /\ route = RouteIdle
BackoffNext == ComputeRetryDelay
BackoffSpec == BackoffInit /\ [][BackoffNext]_vars

\* ------------------------------------------------------------------
\* Claims about the snapshot job
\* ------------------------------------------------------------------
Solo(r) ==
    /\ \A q \in Runs : q # r => pc[q] = "idle"
    /\ \A c \in Cancels : cpc[c] = "idle"

\* the records a run should have kept, from what its fetches returned
PayingCount(os) ==
    Cardinality({i \in 1..Len(os) : os[i].ok /\ os[i].yield > 0})
PayingRecords(os) ==
    LET keep(o) == o.ok /\ o.yield > 0
        kept == SelectSeq(os, keep)
    IN [i \in 1..Len(kept) |-> [ticker |-> kept[i].ticker, yield |-> kept[i].yield]]

\* C1: a trigger that reads status 'running' (in POST /trigger or in the
\* guard of runSnapshotJob) ends at once: it writes no key, so the status
\* stays 'running', and it never enters the symbol loop.
C1_TriggerWhileRunningIsNoOp ==
    \A r \in Runs :
        obs[r].sawRunning =>
            /\ pc[r] = "done"
            /\ obs[r].writes = 0
            /\ ~obs[r].started
            /\ obs[r].progress = <<>>
            /\ obs[r].written = None
            /\ obs[r].outcomes = <<>>

C1_Witness ==
    \E r \in Runs :
        /\ obs[r].sawRunning
        /\ pc[r] = "done"
        /\ Status = Some("running")
        /\ \E q \in Runs : q # r /\ InLoop(q)

\* C2 (as claimed): in every interleaving at most one run is between its
\* write of status=running and the end of its main loop.
C2_AtMostOneRunning ==
    Cardinality({r \in Runs : InLoop(r)}) <= 1

\* C3 (as claimed): once cancelJob has set the status away from 'running'
\* during a run, that run starts no further symbol fetch.
C3_NoFetchAfterCancel ==
    \A r \in Runs : ~obs[r].fetchAfterCancel

\* C4 (as claimed): a run over a non-empty universe during which cancelJob
\* was applied leaves 'snapshot:all' as it was before the run started.
C4_CancelledRunWritesNoSnapshot ==
    \A r \in Runs :
        (obs[r].cancelled /\ pc[r] = "done" /\ Len(tickers[r]) >= 1) =>
            redis[SNAPSHOT_KEY] = obs[r].snapBefore

\* C5: every value stored under 'snapshot:all' holds only records with
\* yield > 0, and the value a completed run writes has exactly one entry per
\* symbol whose fetch succeeded with yield > 0.
C5_SnapshotOnlyPaying ==
    /\ IsSome(redis[SNAPSHOT_KEY]) =>
           \A i \in 1..Len(Val(redis[SNAPSHOT_KEY])) :
               Val(redis[SNAPSHOT_KEY])[i].yield > 0
    /\ \A r \in Runs :
           IsSome(obs[r].written) =>
              /\ \A i \in 1..Len(Val(obs[r].written)) :
                     Val(obs[r].written)[i].yield > 0
              /\ Len(obs[r].outcomes) = Len(tickers[r])
              /\ Len(Val(obs[r].written)) = PayingCount(obs[r].outcomes)

C5_Witness ==
    \E r \in Runs :
        /\ IsSome(obs[r].written)
        /\ redis[SNAPSHOT_KEY] = obs[r].written
        /\ Len(Val(obs[r].written)) = 1
        /\ \E i \in 1..Len(obs[r].outcomes) :
              obs[r].outcomes[i].ok /\ obs[r].outcomes[i].yield = 0

\* C6: in the progress records one run writes, completed never decreases
\* and every record has 0 <= completed <= total.
C6_ProgressMonotone ==
    \A r \in Runs :
        LET ps == obs[r].progress IN
        /\ \A i \in 1..Len(ps) :
              0 <= ps[i].completed /\ ps[i].completed <= ps[i].total
        /\ \A i, j \in 1..Len(ps) :
              i < j => ps[i].completed <= ps[j].completed

C6_Witness ==
    \E r \in Runs :
        LET ps == obs[r].progress IN
        /\ Len(ps) >= 2
        /\ ps[Len(ps)].completed = 2
        /\ ps[1].completed = 0

\* C7 (as claimed): when a run that nothing interferes with finishes, the
\* status is idle, the snapshot holds the paying records of the successful
\* fetches, and the stored progress has completed = N.
C7_FinalState ==
    \A r \in Runs :
        (obs[r].finished /\ Solo(r)) =>
            /\ Status = Some("idle")
            /\ redis[SNAPSHOT_KEY] = Some(PayingRecords(obs[r].outcomes))
            /\ Val(redis[JOB_PROGRESS_KEY]).completed = total(r)

\* C20 (as claimed): when a run has thrown and its caller's catch handler
\* has run, with nothing else touching the store, the status key holds
\* 'failed', for a manual trigger and for the nightly cron trigger alike.
C20_FailedRunSetsStatusFailed ==
    \A r \in Runs :
        (obs[r].threw /\ pc[r] = "done" /\ Solo(r)) =>
            Status = Some("failed")

\* C21 (as claimed): a step of cancelJob changes the value of the status
\* key only when that value is 'running' at the moment of the write; it
\* never replaces 'failed'.
C21_CancelChangesOnlyRunning ==
    [][\A c \in Cancels :
          (cpc[c] = "cancel" /\ cpc'[c] = "done"
             /\ redis'[JOB_STATUS_KEY] # redis[JOB_STATUS_KEY])
          => Status = Some("running")]_vars

\* the local counter completed after symbol j of run r was processed
CompletedAfter(r, j) ==
    Cardinality({i \in 1..j : obs[r].outcomes[i].ok})

\* C23 (as claimed): for every symbol a run has finished processing, a
\* checkpoint was written after it if the completed count was then a
\* multiple of 50 or if it was the final symbol of the universe.
C23_CheckpointOnFinalSymbol ==
    \A r \in Runs :
        \A j \in 1..total(r) :
            (j < idx[r] /\
               (CompletedAfter(r, j) % CHECKPOINT_EVERY = 0 \/ j = total(r)))
            => j \in obs[r].ckpts

\* C24 (as claimed): a run makes no external HTTP call for a symbol whose
\* record is in the cache at the time of the fetch.
C24_NoHttpForCachedSymbol ==
    \A r \in Runs : ~obs[r].httpCached

\* C31: a run that finds no value under 'tickers' throws without having
\* written any key: it never sets the status to 'running', the status does
\* not hold 'running', and the progress and snapshot keys hold what they
\* held before the trigger.
C31_NoUniverseAbortsBeforeWrites ==
    \A r \in Runs :
        obs[r].noUniverse =>
            /\ obs[r].threw
            /\ pc[r] \in {"threw", "done"}
            /\ obs[r].writes = 0
            /\ ~obs[r].started
            /\ obs[r].progress = <<>>
            /\ obs[r].written = None
            /\ Status # Some("running")
            /\ redis[JOB_PROGRESS_KEY] = None
            /\ redis[SNAPSHOT_KEY] = obs[r].snapBefore

C31_Witness ==
    \E r \in Runs :
        /\ obs[r].noUniverse
        /\ pc[r] = "done"
        /\ kind[r] = "manual"
        /\ Status = Some("failed")
        /\ redis[SNAPSHOT_KEY] = Some(OldSnapshot)

\* C32 (as claimed): every progress record a run writes carries the
\* startedAt value of the first progress record that run wrote.
C32_CheckpointKeepsStartedAt ==
    \A r \in Runs :
        \A i \in 1..Len(obs[r].progress) :
            obs[r].progress[i].startedAt = obs[r].progress[1].startedAt

\* C33 (as claimed): a step in which a completing run changes the status
\* from 'running' to 'idle' is taken with the snapshot key holding exactly
\* the records that run accumulated.
C33_SnapshotBeforeIdle ==
    [][\A r \in Runs :
          (pc[r] = "set_idle" /\ pc'[r] = "done"
             /\ Status = Some("running")
             /\ redis'[JOB_STATUS_KEY] = Some("idle"))
          => redis[SNAPSHOT_KEY] = Some(snapshot[r])]_vars

\* C35 (as claimed): a run that has set the status to 'running' and ended
\* without an error and without persisting a snapshot was cancelled:
\* cancelJob was applied while it was in its loop.
C35_EarlyExitOnlyByCancel ==
    \A r \in Runs :
        (pc[r] = "done" /\ obs[r].started /\ ~obs[r].threw
           /\ ~obs[r].finished) => obs[r].cancelled

NoRunActive == \A r \in Runs : pc[r] \in {"idle", "done"}

\* C34 (as claimed): every triggered run eventually ends; a run that set
\* 'running', was not cancelled and met no store error has fetched all N
\* symbols and persisted its snapshot by the time it ends; a cancelled run
\* that has ended leaves the status at 'idle' or later; and the status does
\* not stay 'running' forever while no run is active.
C34_RunsEndInDocumentedOutcome ==
    /\ \A r \in Runs : (pc[r] # "idle") ~> (pc[r] = "done")
    /\ [](\A r \in Runs :
            (pc[r] = "done" /\ obs[r].started /\ ~obs[r].cancelled
               /\ ~obs[r].threw)
            => (obs[r].finished /\ Len(obs[r].outcomes) = total(r)
                  /\ IsSome(obs[r].written)))
    /\ ~<>[](NoRunActive /\ Status = Some("running"))

\* the remaining-work estimate a run computes from its counters
Remaining(r) == total(r) - completed[r] - failed[r]

\* C36: at every point of a run, completed + failed is the number of
\* symbols whose fetch has ended, which is the loop position at the end of
\* an iteration; it never exceeds total, and every estimate the run wrote
\* or would compute is >= 0.
C36_CountersAccountForProcessed ==
    \A r \in Runs :
        /\ completed[r] + failed[r] = Len(obs[r].outcomes)
        /\ pc[r] \in {"ckpt_get", "ckpt_set", "sleep"} =>
              completed[r] + failed[r] = idx[r]
        /\ completed[r] + failed[r] <= total(r)
        /\ Ceil(Remaining(r), REQUESTS_PER_MINUTE) >= 0
        /\ \A i \in 1..Len(obs[r].progress) :
              obs[r].progress[i].estimatedMinutes >= 0

C36_Witness ==
    \E r \in Runs :
        /\ pc[r] = "sleep"
        /\ idx[r] = 2
        /\ completed[r] = 1
        /\ failed[r] = 1

\* C37: when a run has written the snapshot key it has fetched every symbol
\* of its universe once, in the order of the universe, has slept once after
\* each symbol, and the written entries are the paying records in that
\* order.
C37_SnapshotAfterFullOrderedPass ==
    \A r \in Runs :
        IsSome(obs[r].written) =>
            /\ Len(obs[r].outcomes) = total(r)
            /\ \A i \in 1..total(r) : obs[r].outcomes[i].ticker = tickers[r][i]
            /\ obs[r].slept = [i \in 1..total(r) |-> i]
            /\ Val(obs[r].written) = PayingRecords(obs[r].outcomes)

C37_Witness ==
    \E r \in Runs :
        /\ IsSome(obs[r].written)
        /\ total(r) = 2
        /\ obs[r].slept = <<1, 2>>
        /\ Val(obs[r].written) =
              <<[ticker |-> "AAA", yield |-> 4], [ticker |-> "BBB", yield |-> 4]>>

\* ------------------------------------------------------------------
\* Claims about the resilient HTTP client
\* ------------------------------------------------------------------
AllAnswers5xx == \A i \in 1..Len(rlog) : Is5xx(rlog[i])

\* C9: against a server that answers every request with a 5xx status, a
\* call with maxRetries = n makes exactly n + 1 HTTP attempts, sleeps
\* exactly n times and then fails with a Network error.
C9_RetryBudgetOn5xx ==
    (rpc = "done" /\ AllAnswers5xx) =>
        /\ Len(rlog) = maxRetries + 1
        /\ Len(rsleeps) = maxRetries
        /\ rresult.kind = "error"
        /\ rresult.err.name = "NetworkError"

C9_Witness ==
    /\ rpc = "done"
    /\ AllAnswers5xx
    /\ maxRetries = 3
    /\ Len(rlog) = 4
    /\ Len(rsleeps) = 3

\* C10: whatever the attempts receive, one call makes at most
\* maxRetries + 1 HTTP attempts, and a call that has started always ends,
\* with a parsed value or with an error.
C10_BoundedAttemptsAndTermination ==
    /\ [](Len(rlog) <= maxRetries + 1)
    /\ [](rpc = "done" => rresult.kind \in {"value", "error"})
    /\ ((rpc \in {"attempt", "sleep"}) ~> (rpc = "done"))

C10_Witness ==
    /\ rpc = "done"
    /\ rresult.kind = "value"
    /\ Len(rlog) = maxRetries + 1
    /\ maxRetries = 3
    /\ \E i, j, k \in 1..Len(rlog) :
          /\ rlog[i].type = "timeout"
          /\ rlog[j].status = 429
          /\ rlog[k].status = 304

IsClientError(resp) ==
    /\ resp.type = "http"
    /\ resp.status >= 400 /\ resp.status < 500
    /\ resp.status # 429

\* C11: an attempt that receives a 4xx status other than 429 is the last
\* attempt of its call: the call has ended with a ValidationError, no sleep
\* follows the attempt and no further attempt is made, whatever budget
\* remains.
C11_ClientErrorFailsAtOnce ==
    \A i \in 1..Len(rlog) :
        IsClientError(rlog[i]) =>
            /\ rpc = "done"
            /\ Len(rlog) = i
            /\ Len(rsleeps) = i - 1
            /\ rresult.kind = "error"
            /\ rresult.err.name = "ValidationError"

C11_Witness ==
    /\ rpc = "done"
    /\ maxRetries = 3
    /\ Len(rlog) = 2
    /\ Is5xx(rlog[1])
    /\ IsClientError(rlog[2])
    /\ rresult.err = ValidationError("Client error")

Is429(resp) == resp.type = "http" /\ resp.status = 429
AllAnswers429 == \A i \in 1..Len(rlog) : Is429(rlog[i])

\* C12: a 429 on an attempt before the last one never ends the call; a call
\* whose every attempt receives 429 makes maxRetries + 1 attempts, sleeps
\* after each but the last, and then fails with a RateLimitError.
C12_RateLimitAfterBudget ==
    /\ \A i \in 1..Len(rlog) :
           (Is429(rlog[i]) /\ i <= maxRetries) =>
               ~(rpc = "done" /\ Len(rlog) = i)
    /\ (rpc = "done" /\ AllAnswers429) =>
           /\ Len(rlog) = maxRetries + 1
           /\ Len(rsleeps) = maxRetries
           /\ rresult.kind = "error"
           /\ rresult.err.name = "RateLimitError"

C12_Witness ==
    /\ rpc = "done"
    /\ AllAnswers429
    /\ maxRetries = 3
    /\ Len(rlog) = 4
    /\ rresult.err = RateLimitError("API rate limit exceeded")

\* C13: the sleep that follows a 429 with a Retry-After header of s seconds
\* lasts exactly s * 1000 ms at every attempt index (0 for 0, 2000 for 2,
\* 30000 for 30, which is above the backoff cap); the sleep that follows a
\* 429 without the header is the computed backoff; and a 429 before the
\* last attempt is always followed by a sleep.
C13_RetryAfterDelayExact ==
    /\ \A i \in 1..Len(rsleeps) :
           Is429(rlog[i]) =>
              /\ rlog[i].retryAfter = Some("0") => rsleeps[i] = 0
              /\ rlog[i].retryAfter = Some("2") => rsleeps[i] = 2000
              /\ rlog[i].retryAfter = Some("30") => rsleeps[i] = 30000
              /\ rlog[i].retryAfter = None =>
                     \E j \in Jitters : rsleeps[i] = getRetryDelay(i - 1, j)
    /\ \A i \in 1..Len(rlog) :
           (Is429(rlog[i]) /\ i <= maxRetries) => Len(rsleeps) >= i

C13_Witness ==
    /\ maxRetries = 3
    /\ Len(rlog) = 3
    /\ rlog[1] = HttpResponse(429, Some("2"), TRUE)
    /\ rlog[2] = HttpResponse(429, None, TRUE)
    /\ rlog[3] = HttpResponse(429, Some("2"), TRUE)
    /\ rsleeps = <<2000, 2999, 2000>>

IsNetworkFailure(resp) == resp.type \in {"timeout", "reject"} \/ Is5xx(resp)

\* C14 (as claimed): an attempt that ends in a network failure (a timeout, a
\* rejected fetch or a 5xx status) while attempts remain does not end the
\* call: a backoff sleep follows it.
C14_NetworkFailuresRetried ==
    \A i \in 1..Len(rlog) :
        (IsNetworkFailure(rlog[i]) /\ i <= maxRetries) =>
            /\ ~(rpc = "done" /\ Len(rlog) = i)
            /\ Len(rsleeps) >= i

\* what the try block of attempt i throws into the catch block, by the
\* response the attempt received ("" when it throws nothing)
CaughtName(i) ==
    LET resp == rlog[i]
        last == i = maxRetries + 1
    IN IF resp.type = "timeout" THEN "NetworkError"
       ELSE IF resp.type = "reject" THEN "TypeError"
       ELSE IF resp.status = 429 THEN (IF last THEN "RateLimitError" ELSE "")
       ELSE IF Is5xx(resp) THEN (IF last THEN "NetworkError" ELSE "")
       ELSE IF IsClientError(resp) THEN "ValidationError"
       ELSE IF resp.status >= 200 /\ resp.status <= 299
          THEN (IF resp.bodyOk THEN "" ELSE "SyntaxError")
       ELSE "NetworkError"

\* C25: an attempt whose error reaches the catch block is followed by a
\* backoff sleep and another attempt only if the error is a NetworkError
\* (a timeout included) and attempts remain; a NetworkError on the last
\* attempt ends the call with that error; any other error (Validation,
\* RateLimit, TypeError, SyntaxError) ends the call on that attempt and is
\* the error the call fails with.
C25_CatchRetriesOnlyNetwork ==
    \A i \in 1..Len(rlog) :
        LET n == CaughtName(i) IN
        /\ (n = "NetworkError" /\ i <= maxRetries) =>
               /\ ~(rpc = "done" /\ Len(rlog) = i)
               /\ Len(rsleeps) >= i
               /\ \E j \in Jitters : rsleeps[i] = getRetryDelay(i - 1, j)
        /\ (n = "NetworkError" /\ i = maxRetries + 1) =>
               /\ rpc = "done" /\ Len(rlog) = i /\ Len(rsleeps) = i - 1
               /\ rresult.kind = "error"
               /\ rresult.err.name = "NetworkError"
        /\ n \notin {"", "NetworkError"} =>
               /\ rpc = "done" /\ Len(rlog) = i /\ Len(rsleeps) = i - 1
               /\ rresult.kind = "error"
               /\ rresult.err.name = n

C25_Witness ==
    /\ rpc = "done"
    /\ maxRetries = 3
    /\ Len(rlog) = 3
    /\ rlog[1].type = "timeout"
    /\ rlog[2].status = 304
    /\ rlog[3].type = "reject"
    /\ Len(rsleeps) = 2
    /\ rresult.err.name = "TypeError"

\* C26 (as claimed): an attempt that receives a 2xx response whose body
\* does not parse ends the call with a NetworkError and is the last attempt.
C26_ParseFailureIsNetworkError ==
    \A i \in 1..Len(rlog) :
        (rlog[i].type = "http" /\ ResponseOk(rlog[i].status)
           /\ ~rlog[i].bodyOk) =>
            /\ rpc = "done"
            /\ Len(rlog) = i
            /\ rresult.kind = "error"
            /\ rresult.err.name = "NetworkError"

\* min(1000 * 2^k, 10000), written out
BackoffBase(k) ==
    CASE k = 0 -> 1000 [] k = 1 -> 2000 [] k = 2 -> 4000 [] k = 3 -> 8000
      [] OTHER -> 10000

\* C27: the delay getRetryDelay computes for attempt index k is
\* min(1000 * 2^k, 10000) plus the jitter, which is in [0, 1000): it is at
\* least 1000 and at most 10999, and the delay without its jitter never
\* decreases from one attempt index to the next.
C27_BackoffDelay ==
    LET log == backoff.log IN
    /\ \A i \in 1..Len(log) :
          /\ 0 <= log[i].jitter /\ log[i].jitter < 1000
          /\ log[i].delay = BackoffBase(log[i].attempt) + log[i].jitter
          /\ log[i].delay >= 1000
          /\ log[i].delay <= 10999
    /\ \A i, j \in 1..Len(log) :
          log[i].attempt <= log[j].attempt =>
             log[i].delay - log[i].jitter <= log[j].delay - log[j].jitter

C27_Witness ==
    LET log == backoff.log IN
    /\ Len(log) = 3
    /\ log[1] = [attempt |-> 3, jitter |-> 0, delay |-> 8000]
    /\ log[2] = [attempt |-> 4, jitter |-> 999, delay |-> 10999]
    /\ log[3] = [attempt |-> 5, jitter |-> 0, delay |-> 10000]
\* ------------------------------------------------------------------
\* Claims about the read-through fetcher
\* ------------------------------------------------------------------
\* C8: a call of fetcher that finds its key's entry present returns the
\* cached value, makes no external HTTP call and writes nothing to the
\* cache (when the read of the store itself fails, the call still makes no
\* HTTP call and no write).
C8_CacheHitNoHttp ==
    \A c \in Calls :
        IsSome(fobs[c].seen) =>
            /\ fpc[c] = "done"
            /\ fobs[c].http = 0
            /\ fobs[c].writes = 0
            /\ fobs[c].got => fresult[c] = DataPayload(fobs[c].seen)

C8_Witness ==
    \E c \in Calls :
        /\ fpc[c] = "done"
        /\ fobs[c].got
        /\ IsSome(fobs[c].seen)
        /\ fkey[c] = "AAA"
        /\ fresult[c] = DataPayload(Some(CachedStock("AAA")))

\* C22: a call of fetcher always ends by returning a payload.  When nothing
\* failed the payload is the data; when the call's try block threw, the
\* payload is {error, message} with error RATE_LIMIT for a RateLimitError,
\* VALIDATION_ERROR for a ValidationError (an invalid key included),
\* NETWORK_ERROR for a NetworkError and UNKNOWN_ERROR for anything else (the
\* store unreachable, the API key missing, a rejected fetch).
C22_FetcherReturnsStructuredErrors ==
    \A c \in Calls :
        fpc[c] = "done" =>
            LET cause == fobs[c].cause
                p == fresult[c]
            IN /\ cause = "" => (p.error = "" /\ IsSome(p.data))
               /\ cause # "" => (p.data = None /\ p.message # "")
               /\ cause = "RateLimitError" => p.error = "RATE_LIMIT"
               /\ cause = "ValidationError" => p.error = "VALIDATION_ERROR"
               /\ cause = "NetworkError" => p.error = "NETWORK_ERROR"
               /\ cause \in {"Error", "TypeError"} => p.error = "UNKNOWN_ERROR"
               /\ cause \in {"", "RateLimitError", "ValidationError",
                              "NetworkError", "Error", "TypeError"}

C22_Witness ==
    \E c, d \in Calls :
        /\ fpc[c] = "done" /\ fpc[d] = "done"
        /\ fobs[c].cause = "NetworkError"
        /\ fresult[c].error = "NETWORK_ERROR"
        /\ fobs[c].http = MAX_RETRIES + 1
        /\ fobs[d].cause = "Error"
        /\ fobs[d].got /\ fobs[d].http > 0
        /\ fresult[d].error = "UNKNOWN_ERROR"

\* the data the external source can return for key k
IsFetchedData(k, v) ==
    IF k = TICKERS_KEY THEN v = Some(Universe(MaxTickers))
    ELSE \E y \in JobYields : v = Some([ticker |-> k, yield |-> y])

\* a call that missed the cache and ended with an error payload, while no
\* other call wrote its key
FailedOnMiss(c) ==
    /\ fpc[c] = "done"
    /\ fobs[c].got /\ fobs[c].seen = None
    /\ fresult[c].error \in {"RATE_LIMIT", "VALIDATION_ERROR",
                              "NETWORK_ERROR", "UNKNOWN_ERROR"}
    /\ \A d \in Calls \ {c} : fkey[d] # fkey[c] \/ fobs[d].writes = 0

\* C38: every step that stores a value under a key is the cache write of a
\* fetcher call for that key whose external fetch succeeded, and stores the
\* fetched data; a call that ended with an error payload has written
\* nothing, and after a call missed the cache and failed its key is still
\* empty, so the next call for that key misses too.
C38_CacheWrittenOnlyAfterSuccess ==
    [][/\ \A k \in Keys :
            (redis'[k] # redis[k] /\ redis'[k] # None) =>
               \E c \in Calls :
                  /\ fpc[c] = "set" /\ fpc'[c] = "done"
                  /\ fkey[c] = k
                  /\ fobs[c].cause = "" /\ fobs[c].http > 0
                  /\ IsFetchedData(k, redis'[k])
                  /\ fresult'[c] = DataPayload(redis'[k])
       /\ \A c \in Calls :
            /\ (fresult'[c].error \notin {"", "none"}) => fobs'[c].writes = 0
            /\ FailedOnMiss(c)' => redis'[fkey'[c]] = None]_vars

\* a call failed after a cache miss and a later call for the same key goes
\* to the external source again
C38_Witness ==
    \E c, d \in Calls :
        /\ c < d
        /\ fkey[c] = "AAA" /\ fkey[d] = "AAA"
        /\ FailedOnMiss(c)
        /\ fobs[c].http > 0
        /\ fresult[c].error = "RATE_LIMIT"
        /\ fobs[d].got /\ fobs[d].seen = None
        /\ fobs[d].http > 0
        /\ redis["AAA"] = None

\* ------------------------------------------------------------------
\* Claims about fetchStockFundamentals and getSectorTranslation
\* ------------------------------------------------------------------
FundReturned == fund.pc = "done" /\ fund.out.kind = "value"
RawYield == Val(fund.http.body).DividendYield
FundRecord == Val(fund.out.record)

\* the number d equals n / 10^sc
IsValue(d, n, sc) == ~d.nan /\ d.num * Pow10(sc) = n * Pow10(d.scale)

\* C15: in every record fetchStockFundamentals returns, the yield is 0 when
\* DividendYield is missing, empty, "None", "-" or has no leading number
\* ("abc"), and is 100 times the parsed fraction otherwise: "0.05" gives 5,
\* "0.0321" gives 3.21, "5" gives 500, ".5" gives 50, "1e-2" gives 1,
\* " 0.07" gives 7, "0.05x" gives 5, "0" gives 0, "-0.02" gives -2.
C15_YieldNormalization ==
    FundReturned =>
        LET y == FundRecord.yield IN
        /\ RawYield \in {None, Some(<<>>), Some(<<"N", "o", "n", "e">>),
                         Some(<<"-">>), Some(<<"a", "b", "c">>)}
              => IsValue(y, 0, 0)
        /\ RawYield = Some(<<"0">>) => IsValue(y, 0, 0)
        /\ RawYield = Some(<<"0", ".", "0", "5">>) => IsValue(y, 5, 0)
        /\ RawYield = Some(<<"0", ".", "0", "3", "2", "1">>) => IsValue(y, 321, 2)
        /\ RawYield = Some(<<"-", "0", ".", "0", "2">>) => IsValue(y, -2, 0)
        /\ RawYield = Some(<<"5">>) => IsValue(y, 500, 0)
        /\ RawYield = Some(<<"0", ".", "0", "5", "x">>) => IsValue(y, 5, 0)
        /\ RawYield = Some(<<".", "5">>) => IsValue(y, 50, 0)
        /\ RawYield = Some(<<"1", "e", "-", "2">>) => IsValue(y, 1, 0)
        /\ RawYield = Some(<<" ", "0", ".", "0", "7">>) => IsValue(y, 7, 0)

C15_Witness ==
    /\ FundReturned
    /\ RawYield = Some(<<"0", ".", "0", "5">>)
    /\ IsValue(FundRecord.yield, 5, 0)
    /\ FundRecord.ticker = "AAA"

\* C16 (as claimed): every record fetchStockFundamentals returns has a
\* dividend yield >= 0, whatever DividendYield string the answer carries.
C16_YieldNonNegative ==
    FundReturned => FundRecord.yield.num >= 0

\* the answer of Alpha Vantage that the call of fetchStockFundamentals parsed
FundAnswered == fund.pc = "done" /\ fund.apiKey /\ fund.http.ok
FundBody == Val(fund.http.body)
HasText(field) == field \notin {None, Some("")}

\* C28: on a parsed answer, a non-empty 'Error Message' gives a
\* ValidationError ("Invalid ticker symbol") whatever Note and Symbol are;
\* otherwise a non-empty Note gives a RateLimitError whatever Symbol is;
\* otherwise a missing or empty Symbol gives a ValidationError ("No data
\* found for ticker"); a record is returned exactly when none of the three
\* applies.
C28_AnomalyPrecedence ==
    FundAnswered =>
        /\ HasText(FundBody.ErrorMessage) =>
              /\ fund.out.kind = "error"
              /\ fund.out.err.name = "ValidationError"
              /\ fund.out.err.message = "Invalid ticker symbol"
        /\ (~HasText(FundBody.ErrorMessage) /\ HasText(FundBody.Note)) =>
              /\ fund.out.kind = "error"
              /\ fund.out.err.name = "RateLimitError"
        /\ (~HasText(FundBody.ErrorMessage) /\ ~HasText(FundBody.Note)
               /\ ~HasText(FundBody.Symbol)) =>
              /\ fund.out.kind = "error"
              /\ fund.out.err.name = "ValidationError"
              /\ fund.out.err.message = "No data found for ticker"
        /\ fund.out.kind = "value" <=>
              (~HasText(FundBody.ErrorMessage) /\ ~HasText(FundBody.Note)
                 /\ HasText(FundBody.Symbol))

C28_Witness ==
    /\ FundAnswered
    /\ FundBody.ErrorMessage = Some("Invalid API call.")
    /\ FundBody.Note = Some("Thank you for using Alpha Vantage!")
    /\ FundBody.Symbol = Some("AAA")
    /\ fund.out.err.name = "ValidationError"

SectorLabels ==
    {Title("manufacturing"), Title("services"), Title("agriculture"),
     Title("retail"), Title("property"), Title("energy"), Title("unknown")}

\* C17: for every input string, in lower, title or upper case, the result of
\* getSectorTranslation is one of the six category labels or "Unknown"; the
\* documented keys give their category in every letter case, and every
\* other input gives "Unknown".
C17_SectorMappingTotal ==
    /\ \A i \in 2..Len(strail) : strail[i] \in SectorLabels
    /\ Len(strail) >= 2 =>
          LET b == strail[1].base
              t == strail[2]
          IN /\ b \in {"technology", "industrials", "basic materials"}
                   => t = Title("manufacturing")
             /\ b \in {"healthcare", "financial services",
                       "communication services"} => t = Title("services")
             /\ b \in {"consumer cyclical", "consumer defensive"}
                   => t = Title("retail")
             /\ b = "real estate" => t = Title("property")
             /\ b \in {"utilities", "energy"} => t = Title("energy")
             /\ b \notin {"technology", "industrials", "basic materials",
                          "healthcare", "financial services",
                          "communication services", "consumer cyclical",
                          "consumer defensive", "real estate", "utilities",
                          "energy"} => t = Title("unknown")

C17_Witness ==
    /\ Len(strail) = 2
    /\ strail[1] = Upper("real estate")
    /\ strail[2] = Title("property")

\* C18 (as claimed): applying getSectorTranslation to its own result gives
\* that result again.
C18_SectorMappingIdempotent ==
    Len(strail) >= 3 => strail[3] = strail[2]

\* C18 (amended): applying getSectorTranslation to its own result gives that
\* result again only when the result is "Energy" or "Unknown"; applied to
\* any other label it gives "Unknown".
C18_SectorMappingSecondImage ==
    \A i \in 2..(Len(strail) - 1) :
        IF strail[i] \in {Title("energy"), Title("unknown")}
           THEN strail[i + 1] = strail[i]
           ELSE strail[i + 1] = Title("unknown")

C18_Witness ==
    /\ Len(strail) = 3
    /\ strail[1] = Upper("utilities")
    /\ strail[2] = Title("energy")
    /\ strail[3] = Title("energy")

\* ------------------------------------------------------------------
\* Claims about fetchBatch
\* ------------------------------------------------------------------
\* the entry that stands for the payload fetcher returned to position c
EntryMatches(entry, c) ==
    IF fresult[c].error # ""
       THEN entry.isError /\ entry.message = fresult[c].message
       ELSE ~entry.isError /\ entry.data = fresult[c].data
                /\ Val(entry.data).ticker = batch.tickers[c]

\* C19: when fetchBatch has returned, its result has exactly one entry per
\* requested symbol; the entry of a symbol is an error when its fetch failed
\* and its record when the fetch succeeded (for a symbol listed twice, the
\* outcome of one of its two fetches); and no position of the list is left
\* without a fetch, whatever the other fetches did.
C19_BatchIsolatesFailures ==
    batch.pc = "done" =>
        /\ DOMAIN batch.results =
              {batch.tickers[c] : c \in 1..Len(batch.tickers)}
        /\ \A c \in 1..Len(batch.tickers) : fpc[c] = "done"
        /\ \A c \in 1..Len(batch.tickers) :
              \E d \in 1..Len(batch.tickers) :
                  /\ batch.tickers[d] = batch.tickers[c]
                  /\ EntryMatches(batch.results[batch.tickers[c]], d)

C19_Witness ==
    /\ batch.pc = "done"
    /\ batch.tickers = <<"AAA", "BBB">>
    /\ batch.results["AAA"].isError
    /\ fresult[1].error = "NETWORK_ERROR"
    /\ ~batch.results["BBB"].isError
    /\ batch.results["BBB"].data = Some([ticker |-> "BBB", yield |-> 4])
    /\ fobs[2].http > 0

\* the window, counted from 0, that position c of the list belongs to
WindowOf(c) == (c - 1) \div batch.concurrency
BatchStarted(c) == fpc[c] # "idle"
BatchFinished(c) ==
    fpc[c] = "done" /\ batch.tickers[c] \in DOMAIN batch.results
BatchInFlight ==
    {c \in 1..Len(batch.tickers) : fpc[c] \in {"get", "fetch", "set"}}

\* C29: during a call of fetchBatch no fetch of a later window has started
\* while a fetch of an earlier window has not finished and stored its
\* entry, and at most `concurrency` fetches are in flight at any time.
C29_WindowsSequential ==
    batch.pc # "idle" =>
        /\ \A c, d \in 1..Len(batch.tickers) :
              (WindowOf(c) < WindowOf(d) /\ BatchStarted(d))
                 => BatchFinished(c)
        /\ Cardinality(BatchInFlight) <= batch.concurrency

C29_Witness ==
    /\ batch.pc = "window"
    /\ batch.concurrency = 1
    /\ batch.tickers = <<"AAA", "BBB">>
    /\ fpc[1] = "done" /\ fobs[1].http > 0
    /\ fpc[2] = "fetch"

CeilDiv(n, w) == (n + w - 1) \div w

\* C30: a call of fetchBatch over n >= 1 symbols with width w has paused
\* ceil(n / w) - 1 times when it returns; a pause follows a window only
\* when a later window exists, and every window before the current one was
\* followed by one pause.
C30_PacingDelays ==
    LET n == Len(batch.tickers)
        w == batch.concurrency
    IN /\ (batch.pc = "done" /\ n >= 1) => batch.sleeps = CeilDiv(n, w) - 1
       /\ batch.pc = "sleep" =>
             /\ batch.i \div w < (n - 1) \div w
             /\ batch.sleeps = (batch.i \div w) + 1
       /\ batch.pc = "window" => batch.sleeps = batch.i \div w
       /\ (batch.pc = "loop" /\ batch.i < n) => batch.sleeps = batch.i \div w

C30_Witness ==
    /\ batch.pc = "done"
    /\ Len(batch.tickers) = 2
    /\ batch.concurrency = 1
    /\ batch.sleeps = 1

\* ------------------------------------------------------------------
\* Claims about POST /batch
\* ------------------------------------------------------------------
\* C39 (as claimed): in every 200 response of POST /batch the summary has
\* successful + failed = total, and every requested ticker, upper-cased, is a
\* key of exactly one of data and errors.
C39_BatchSummaryAddsUp ==
    (route.pc = "responded" /\ route.status = 200) =>
        /\ route.summary.successful + route.summary.failed
              = route.summary.total
        /\ \A i \in 1..Len(route.tickers) :
              LET u == toUpperCase(route.tickers[i]) IN
              (u \in DOMAIN route.data) # (u \in DOMAIN route.errors)
====
